---- MODULE Spec2Model ----
(***************************************************************************)
(* Model of the preview/editor synchronisation core of smart-md-editor-v2. *)
(*                                                                         *)
(*  SpecRender : MarkdownPreview's render scheduler (debounce, isActive,   *)
(*               mermaid cache, commit)                                    *)
(***************************************************************************)
EXTENDS Integers, Sequences, FiniteSets, TLC

(***************************************************************************)
(* Bounds                                                                  *)
(***************************************************************************)
\* number of runs of the [content] effect (mount included)
MaxGen == 3
\* number of highlights applied
MaxHighlights == 2
\* number of scroll handlers of the bidirectional EditorPane that arm a timer
MaxScrollEvents == 3
\* number of DOM replacements by render passes
MaxCommits == 3
\* number of lines of a document handed to validateContent
MaxLines == 3
\* number of handleSave calls that pass validation
MaxSaves == 1

(***************************************************************************)
(* Program constants                                                       *)
(***************************************************************************)
\* MarkdownPreview.tsx:695  contentDiff > 50
DiffThreshold == 50
\* MarkdownPreview.tsx:701  setTimeout(..., 300), in ticks of 100 ms
DebounceTicks == 3
\* editor-utils.ts:263  setTimeout(..., 1500), in ticks of 500 ms
HighlightTicks == 3
\* editor-utils.ts:243  setTimeout(..., 500), in ticks of 500 ms
ProgrammaticTicks == 1
\* part_004:75, part_004:94  setTimeout(..., 100), in ticks of 50 ms
GuardTicks == 2
\* height of the preview viewport, as in the component test
PreviewClientHeight == 500
\* getLayoutInfo().height of the editor, as in the component test
EditorLayoutHeight == 500

(***************************************************************************)
(* Strings are sequences of one-character strings.                         *)
(***************************************************************************)
WhiteSpace == {" ", "\n", "\t"}

RECURSIVE TrimStart(_)
TrimStart(s) ==
  IF s = <<>> THEN s
  ELSE IF Head(s) \in WhiteSpace THEN TrimStart(Tail(s)) ELSE s

RECURSIVE TrimEnd(_)
TrimEnd(s) ==
  IF s = <<>> THEN s
  ELSE IF s[Len(s)] \in WhiteSpace THEN TrimEnd(SubSeq(s, 1, Len(s) - 1)) ELSE s

\* String.prototype.trim
Trim(s) == TrimEnd(TrimStart(s))

Abs(n) == IF n < 0 THEN -n ELSE n

\* characters that open a tag when they follow "<" in HTML
TagOpen == {"a", "b", "c", "d", "e", "f", "g", "h", "i", "j", "k", "l", "m",
            "n", "o", "p", "q", "r", "s", "t", "u", "v", "w", "x", "y", "z",
            "/", "!", "?"}

\* the rest of s after the first ">" (nothing if there is none)
RECURSIVE AfterTag(_)
AfterTag(s) ==
  IF s = <<>> THEN s
  ELSE IF Head(s) = ">" THEN Tail(s) ELSE AfterTag(Tail(s))

\* element.textContent after element.innerHTML = s: the markup in s is
\* parsed into elements and only the character data is left
RECURSIVE TextContent(_)
TextContent(s) ==
  IF s = <<>> THEN s
  ELSE IF Head(s) = "<" /\ Tail(s) # <<>> /\ Head(Tail(s)) \in TagOpen
         THEN TextContent(AfterTag(s))
         ELSE <<Head(s)>> \o TextContent(Tail(s))

(***************************************************************************)
(* Content values handed to MarkdownPreview.  A content value is its       *)
(* length, the prose it renders to, and the texts of its mermaid fences    *)
(* (token.content, which ends with a newline).                             *)
(***************************************************************************)
TextA     == <<"a", "\n">>
TextAPad  == <<" ", "a", "\n">>
TextB     == <<"b", "\n">>
TextBad   == <<"x", "\n">>
TextBadTag == <<"x", "<", "b", ">", "\n">>

\* diagram sources the rasterizer rejects (malformed syntax)
FailingKeys == {Trim(TextBad)}

EmptyContent == [len |-> 0, prose |-> "", mermaid |-> <<>>]

Contents ==
  { EmptyContent,
    [len |-> 10,  prose |-> "p", mermaid |-> <<>>],
    [len |-> 61,  prose |-> "p", mermaid |-> <<>>],
    [len |-> 20,  prose |-> "p", mermaid |-> <<TextA>>],
    [len |-> 60,  prose |-> "q", mermaid |-> <<TextAPad, TextB>>],
    [len |-> 100, prose |-> "q", mermaid |-> <<TextA, TextBad>>],
    [len |-> 103, prose |-> "q", mermaid |-> <<TextBadTag>>] }

VARIABLES
  content,              \* the content prop of MarkdownPreview
  lastContentRef,       \* lastContentRef.current
  lastRenderedHtmlRef,  \* lastRenderedHtmlRef.current
  wrapperHtml,          \* contentWrapperRef.current.innerHTML
  debounceTimerRef,     \* debounceTimerRef.current (0 = null)
  timers,               \* pending setTimeout timers of the preview
  effects,              \* one record per run of the [content] effect
  mermaidCacheRef,      \* mermaidCacheRef.current
  succeeded,            \* history: keys whose rasterization has succeeded
  sinceChange,          \* history: ticks since the last content change
  doc,                  \* the blocks of the source document in the editor
  visibleRanges,        \* editor.getVisibleRanges()[0]
  selection,            \* the editor's selection (setSelection)
  decorations,          \* the decorations present in the editor
  highlightDecorations, \* highlightDecorations.current
  locTimers,            \* pending timers armed by performSearchAndHighlight
  isProgrammaticScroll, \* isProgrammaticScroll.current
  hlCount,              \* decoration ids handed out by the editor so far
  located,              \* history: the last call of the locator: its arguments,
                        \* its search ranges, its match and the step that gave it
  clicked,              \* history: the click on the preview's text handled by
                        \* the last step, if it was one
                        \* (parity alternates from one call to the next)
  editorRef,            \* EditorPane: editorRef.current is set (editor mounted)
  previewContent,       \* EditorPane: the previewContent prop (by rendered height)
  domHeight,            \* height of the content the preview DOM holds
  renderInFlight,       \* the preview's pass for previewContent has not committed
  previewScrollTop,     \* previewRef.current.scrollTop
  editorGeom,           \* editor.getScrollHeight() and getLayoutInfo().height
  editorScrollTop,      \* the editor's scroll offset, a fraction num/den
  handleMouseWheel,     \* the editor option scrollbar.handleMouseWheel
  optionsSet,           \* history: the effect has called updateOptions
  synced,               \* history: the last event was a handled preview scroll
  prevSync,             \* history: the handled preview scroll before it
  isScrolling,          \* bidirectional EditorPane: isScrolling.current
  guardTimers,          \* pending timers that reset isScrolling
  biEditorTop,          \* bidirectional EditorPane: editor.getScrollTop()
  biPreviewTop,         \* bidirectional EditorPane: previewRef.current.scrollTop
  pendingEcho,          \* scroll event queued by a write of previewRef.scrollTop
  scrollEvents,         \* number of scroll handlers that have armed a timer
  echoSeen,             \* history: the last delivered echo and the lock it met
  containerScrollTop,   \* MarkdownPreview: containerRef.current.scrollTop
  lastScrollTopRef,     \* MarkdownPreview: lastScrollTopRef.current
  scrollEventPending,   \* a scroll event of the container is queued
  contentRange,         \* scrollHeight - clientHeight of the committed content
  commitCount,          \* number of DOM replacements so far
  lastCommit,           \* history: the offsets around the last DOM replacement
  guardRevision,        \* EditorPane revision: the resync effect tests hasTextFocus
  resyncMounted,        \* resync: editorRef.current is set
  contentProp,          \* resync: the content prop of EditorPane
  buffer,               \* resync: editor.getValue()
  lastValueRef,         \* resync: lastValueRef.current
  hasTextFocus,         \* resync: editor.hasTextFocus()
  position,             \* resync: editor.getPosition(), as a column
  lastResync,           \* history: the last run of the resync effect
  appContent,           \* App: the content state
  saveMounted,          \* App/EditorPane: the editor has registered Ctrl/Cmd+S
  commandContent,       \* content closed over by the handleSave the command calls
  saveStatus,           \* App: saveStatus
  isSaveProgressModalOpen, \* App: isSaveProgressModalOpen
  pendingSaves,         \* handleSave calls that have passed validation
  statusTimers,         \* pending timers that set saveStatus back to idle
  disk,                 \* content of the file on disk
  backupFile,           \* the .bak file
  saveCount,            \* number of handleSave calls that passed validation
  toast,                \* App: the toast shown last
  lastPress,            \* history: the last call of handleSave
  fsRevision,           \* which saveFile is in use
  fsPc,                 \* saveFile: the await it is at
  fileContent,          \* content of the file behind fileHandle
  bakFile,              \* the <name>.bak file
  bakStream,            \* swap file of the backup's writable stream
  fileStream,           \* swap file of the file's writable stream
  fsOld,                \* oldContent read by saveFile
  fsNew,                \* the content argument of saveFile
  fsResult,             \* how the promise of saveFile settled
  fsHistory,             \* history: this save's start and failures
  previewNodes,         \* the preview pane the gutter click scrolls
  gutterScrollTop,      \* previewElement.scrollTop of that pane
  backgroundColor,      \* style.backgroundColor of each anchored element
  flashTimers,          \* pending timers that restore a background, oldest first
  gutter,               \* history: the last click on the editor gutter
  currentFile,          \* App: the selected file (0 = none)
  appText,              \* App: the content state
  appPreviewContent,    \* App: the previewContent state
  isEditing,            \* App: the isEditing state
  debounced,            \* the pending call of debouncedUpdatePreview
  fileReads,            \* readFile promises that have not settled
  exitTimers,           \* pending timers of handleExitEdit
  containerLine,        \* data-line of each diagram container, 0 before it is created
  zoomState,            \* applyInteractions: scale, translateX, translateY of each container
  localStorage,         \* the item mermaid-state-<id> of each id
  zoomOps,              \* number of operations on the containers
  lastZoom              \* history: the last operation on a container

renderVars == <<content, lastContentRef, lastRenderedHtmlRef, wrapperHtml,
                debounceTimerRef, timers, effects, mermaidCacheRef,
                succeeded, sinceChange>>

locateVars == <<doc, visibleRanges, selection, decorations,
                highlightDecorations, locTimers, isProgrammaticScroll,
                hlCount, located, clicked>>

scrollVars == <<editorRef, previewContent, domHeight, renderInFlight,
                previewScrollTop, editorGeom, editorScrollTop,
                handleMouseWheel, optionsSet, synced, prevSync>>

bidiVars == <<isScrolling, guardTimers, biEditorTop, biPreviewTop,
              pendingEcho, scrollEvents, echoSeen>>

keepVars == <<containerScrollTop, lastScrollTopRef, scrollEventPending,
              contentRange, commitCount, lastCommit>>

resyncVars == <<guardRevision, resyncMounted, contentProp, buffer,
                lastValueRef, hasTextFocus, position, lastResync>>

saveVars == <<appContent, saveMounted, commandContent, saveStatus,
              isSaveProgressModalOpen, pendingSaves, statusTimers, disk, backupFile, saveCount, toast,
              lastPress>>

\* the components modelled after the first three
fsVars == <<fsRevision, fsPc, fileContent, bakFile, bakStream, fileStream,
            fsOld, fsNew, fsResult, fsHistory>>

gutterVars == <<previewNodes, gutterScrollTop, backgroundColor, flashTimers,
                gutter>>

appVars == <<currentFile, appText, appPreviewContent, isEditing, debounced,
             fileReads, exitTimers>>

zoomVars == <<containerLine, zoomState, localStorage, zoomOps, lastZoom>>

laterVars == <<bidiVars, keepVars, resyncVars, saveVars, fsVars, gutterVars,
              appVars,
              zoomVars>>

vars == <<renderVars, locateVars, scrollVars, laterVars>>

\* the variables a specification leaves alone
nonRenderVars == <<locateVars, scrollVars, laterVars>>
nonLocateVars == <<renderVars, scrollVars, laterVars>>
nonScrollVars == <<renderVars, locateVars, laterVars>>
nonBidiVars == <<renderVars, locateVars, scrollVars, keepVars, resyncVars,
                 saveVars, fsVars, gutterVars,
  appVars,
  zoomVars>>
nonKeepVars == <<renderVars, locateVars, scrollVars, bidiVars, resyncVars,
                 saveVars, fsVars, gutterVars,
  appVars,
  zoomVars>>
nonResyncVars == <<renderVars, locateVars, scrollVars, bidiVars, keepVars,
                   saveVars, fsVars, gutterVars,
  appVars,
  zoomVars>>
nonSaveVars == <<renderVars, locateVars, scrollVars, bidiVars, keepVars,
                 resyncVars, fsVars, gutterVars,
  appVars,
  zoomVars>>
nonFsVars == <<renderVars, locateVars, scrollVars, bidiVars, keepVars,
               resyncVars, saveVars, gutterVars,
  appVars,
  zoomVars>>
nonGutterVars == <<renderVars, locateVars, scrollVars, bidiVars, keepVars,
                   resyncVars, saveVars, fsVars,
  appVars,
  zoomVars>>
nonAppVars == <<renderVars, locateVars, scrollVars, bidiVars, keepVars,
  resyncVars, saveVars, fsVars, gutterVars,
  zoomVars>>
nonZoomVars == <<renderVars, locateVars, scrollVars, bidiVars, keepVars,
  resyncVars, saveVars, fsVars, gutterVars, appVars>>

NoEcho == [valid |-> FALSE]

\* the bidirectional EditorPane's variables in the specifications that do
\* not exercise it
BidiIdle ==
  /\ isScrolling = "null"
  /\ guardTimers = {}
  /\ biEditorTop = 0
  /\ biPreviewTop = 0
  /\ pendingEcho = NoEcho
  /\ scrollEvents = 0
  /\ echoSeen = NoEcho

NoCommit == [valid |-> FALSE]

\* the preview's scroll bookkeeping in the specifications that do not
\* exercise it
KeepIdle ==
  /\ containerScrollTop = 0
  /\ lastScrollTopRef = 0
  /\ scrollEventPending = FALSE
  /\ contentRange = 0
  /\ commitCount = 0
  /\ lastCommit = NoCommit

NoResync == [valid |-> FALSE]

\* the resync effect's variables in the specifications that do not exercise
\* it
ResyncIdle ==
  /\ guardRevision = FALSE
  /\ resyncMounted = FALSE
  /\ contentProp = 0
  /\ buffer = 0
  /\ lastValueRef = 0
  /\ hasTextFocus = FALSE
  /\ position = 0
  /\ lastResync = NoResync

NoFile == [exists |-> FALSE]

NoPress == [valid |-> FALSE]

\* the save path's variables in the specifications that do not exercise it
SaveIdle ==
  /\ appContent = <<>>
  /\ saveMounted = FALSE
  /\ commandContent = <<>>
  /\ saveStatus = "idle"
  /\ isSaveProgressModalOpen = FALSE
  /\ pendingSaves = {}
  /\ statusTimers = {}
  /\ disk = <<>>
  /\ backupFile = NoFile
  /\ saveCount = 0
  /\ toast = "none"
  /\ lastPress = NoPress

NoStream == [open |-> FALSE]

NoSave == [started |-> FALSE]

\* saveFile's variables in the specifications that do not exercise it
FsIdle ==
  /\ fsRevision = "hook"
  /\ fsPc = "idle"
  /\ fileContent = 0
  /\ bakFile = NoFile
  /\ bakStream = NoStream
  /\ fileStream = NoStream
  /\ fsOld = 0
  /\ fsNew = 0
  /\ fsResult = "none"
  /\ fsHistory = NoSave

Zero == [num |-> 0, den |-> 1]

NoPreview == [nodes |-> <<>>, paneTop |-> 0, clientHeight |-> 0,
              scrollHeight |-> 0]

NoGutterClick == [valid |-> FALSE]

\* the gutter click's variables in the specifications that do not exercise it
GutterIdle ==
  /\ previewNodes = NoPreview
  /\ gutterScrollTop = Zero
  /\ backgroundColor = <<>>
  /\ flashTimers = <<>>
  /\ gutter = NoGutterClick

\* the App component's variables in the specifications that do not exercise
\* it
AppIdle ==
  /\ currentFile = 0
  /\ appText = 0
  /\ appPreviewContent = 0
  /\ isEditing = FALSE
  /\ debounced = [armed |-> FALSE]
  /\ fileReads = {}
  /\ exitTimers = {}

\* the diagram containers' variables in the specifications that do not
\* exercise them
ZoomIdle ==
  /\ containerLine = <<>>
  /\ zoomState = <<>>
  /\ localStorage = <<>>
  /\ zoomOps = 0
  /\ lastZoom = [valid |-> FALSE]

LaterIdle ==
  /\ BidiIdle
  /\ KeepIdle
  /\ ResyncIdle
  /\ SaveIdle
  /\ FsIdle
  /\ GutterIdle
  /\ AppIdle
  /\ ZoomIdle

\* the scroll synchronizer's variables in the specifications that do not
\* exercise it
ScrollIdle ==
  /\ editorRef = FALSE
  /\ previewContent = 0
  /\ domHeight = 0
  /\ renderInFlight = FALSE
  /\ previewScrollTop = 0
  /\ editorGeom = [scrollHeight |-> 0, height |-> 0]
  /\ editorScrollTop = Zero
  /\ handleMouseWheel = TRUE
  /\ optionsSet = FALSE
  /\ synced = FALSE
  /\ prevSync = [valid |-> FALSE]

NoMatch == [line |-> 0, startColumn |-> 0, endColumn |-> 0]

NoClick == [valid |-> FALSE]

\* the locator's variables in the specifications that do not exercise it
LocateIdle ==
  /\ doc = <<>>
  /\ visibleRanges = [startLineNumber |-> 1, endLineNumber |-> 1]
  /\ selection = NoMatch
  /\ decorations = {}
  /\ highlightDecorations = {}
  /\ locTimers = {}
  /\ isProgrammaticScroll = FALSE
  /\ hlCount = 0
  /\ located = [called |-> FALSE]
  /\ clicked = NoClick

\* the preview's variables in the specifications that do not exercise it
RenderIdle ==
  /\ content = [len |-> 0, prose |-> "", mermaid |-> <<>>]
  /\ lastContentRef = content
  /\ lastRenderedHtmlRef = [prose |-> "", nodes |-> <<>>]
  /\ wrapperHtml = lastRenderedHtmlRef
  /\ debounceTimerRef = 0
  /\ timers = {}
  /\ effects = <<>>
  /\ mermaidCacheRef = <<>>
  /\ succeeded = {}
  /\ sinceChange = 0

(***************************************************************************)
(* HTML                                                                    *)
(***************************************************************************)
\* md.render(content) assigned to tempDiv.innerHTML: prose plus one
\* div.mermaid per mermaid fence, whose content is token.content as HTML
MdRender(c) ==
  [prose |-> c.prose,
   nodes |-> [i \in 1..Len(c.mermaid) |->
                <<"mermaid", TextContent(c.mermaid[i])>>]]

\* md.render('') = ''
EmptyHtml == MdRender(EmptyContent)

\* mermaid.render(id, text) -> { svg }: the svg carries the id it was given
Svg(id, text) == <<"svg", id, text>>

\* <div class="mermaid-container" ...>${svg}</div>
Container(svg) == <<"mermaid-container", svg>>

\* the catch branch: node.innerHTML = error box followed by
\* <pre>${node.textContent}</pre>
ErrorPlaceholder(text) == <<"mermaid-error", TextContent(text)>>

(***************************************************************************)
(* render(), first synchronous part: every mermaid node looks its key up   *)
(* in the cache; a miss calls mermaid.render and awaits it.                *)
(***************************************************************************)
CacheKey(text) == Trim(text)

\* variant: the lookup uses the untrimmed text
CacheLookupRaw(cache, text) == text \in DOMAIN cache

\* if (mermaidCacheRef.current[cacheKey])
CacheLookup(cache, text) == CacheKey(text) \in DOMAIN cache

\* variant: the entry is stored under the untrimmed text
CacheStoreRaw(cache, text, svg) == (text :> svg) @@ cache

CacheStore(cache, text, svg) == (CacheKey(text) :> svg) @@ cache

StartNodes(c, cache, succ) ==
  [i \in 1..Len(c.mermaid) |->
     LET text == TextContent(c.mermaid[i]) IN
     IF CacheLookup(cache, text)
       THEN [text |-> text, st |-> "hit", invoked |-> FALSE,
             succAtStart |-> CacheKey(text) \in succ,
             out |-> Container(cache[CacheKey(text)])]
       ELSE [text |-> text, st |-> "inflight", invoked |-> TRUE,
             succAtStart |-> CacheKey(text) \in succ,
             out |-> <<"mermaid", text>>]]

\* tempDiv.innerHTML once every sub-render has settled
NewHtml(e) ==
  [prose |-> e.content.prose,
   nodes |-> [i \in 1..Len(e.nodes) |-> e.nodes[i].out]]

\* variant: step 4 without the isActive test
CommitAllowedAlways(isActive) == TRUE

\* step 4 of render(): isActive && wrapper && container
CommitAllowed(isActive) == isActive

\* variant: step 4 without the comparison with the last HTML
WritesAlways(e, lastHtml) == CommitAllowed(e.isActive)

\* if (newHtml !== lastRenderedHtmlRef.current)
Writes(e, lastHtml) == CommitAllowed(e.isActive) /\ NewHtml(e) # lastHtml

\* the pass of effect e reaches step 4 while curGen effects have run
Finish(e, g, curGen, lastHtml, effs) ==
  [e EXCEPT !.phase = "done",
            !.html = NewHtml(e),
            !.wrote = Writes(e, lastHtml),
            !.differed = (NewHtml(e) # lastHtml),
            !.superseded = (g # curGen),
            !.afterLater = (\E h \in (g + 1)..Len(effs) : effs[h].phase = "done")]

\* render() called for effect e: synchronous up to the first await; with no
\* mermaid node there is no await and step 4 runs in the same task
Begin(e, g, curGen, cache, succ, quiet, lastHtml, effs) ==
  LET started == [e EXCEPT !.phase = "rendering",
                           !.nodes = StartNodes(e.content, cache, succ),
                           !.startGen = curGen,
                           !.quiet = quiet]
  IN IF Len(e.content.mermaid) = 0
       THEN Finish(started, g, curGen, lastHtml, effs)
       ELSE started

NewEffect(c, via) ==
  [content |-> c, isActive |-> TRUE, via |-> via, phase |-> "armed",
   nodes |-> <<>>, html |-> EmptyHtml, wrote |-> FALSE, differed |-> FALSE,
   superseded |-> FALSE, afterLater |-> FALSE, startGen |-> 0, quiet |-> 0]

\* variant: the timer is left armed
ClearTimeoutNoop(ts, id) == ts

\* clearTimeout(id)
ClearTimeout(ts, id) == {t \in ts : t.id # id}

\* variant: the cleanup leaves isActive set
CleanupKeepActive(effs) == effs

\* the cleanup returned by the effect
Cleanup(effs) ==
  IF effs = <<>> THEN effs
  ELSE [effs EXCEPT ![Len(effs)].isActive = FALSE]

IsInitialLoad(lastHtml) == lastHtml = EmptyHtml

ContentDiff(c, last) == Abs(c.len - last.len)

\* variant: a difference of exactly the threshold is rendered at once
ImmediateAtThreshold(c, last, lastHtml) ==
  IsInitialLoad(lastHtml) \/ ContentDiff(c, last) >= DiffThreshold

\* if (isInitialLoad || contentDiff > 50)
Immediate(c, last, lastHtml) ==
  IsInitialLoad(lastHtml) \/ ContentDiff(c, last) > DiffThreshold

\* One run of useEffect(..., [content]) for the new content c, preceded by
\* the cleanup of the previous run.  Gives the next values of the preview's
\* refs as a record.
RunEffect(c, effs, last, lastHtml, wrapper, ref, ts, cache, succ) ==
  LET g       == Len(effs) + 1
      cleaned == Cleanup(effs)
      ts1     == IF effs = <<>> THEN ts ELSE ClearTimeout(ts, ref)
  IN IF Immediate(c, last, lastHtml)
       THEN LET e == Begin(NewEffect(c, "immediate"), g, g, cache, succ, 0,
                           lastHtml, cleaned)
            IN [effects |-> Append(cleaned, e),
                timers  |-> ts1,
                ref     |-> ref,
                lastHtml |-> IF e.wrote THEN e.html ELSE lastHtml,
                wrapper  |-> IF e.wrote THEN e.html ELSE wrapper]
       ELSE [effects |-> Append(cleaned, NewEffect(c, "debounce")),
             timers  |-> ClearTimeout(ts1, ref) \cup {[id |-> g, left |-> DebounceTicks]},
             ref     |-> g,
             lastHtml |-> lastHtml,
             wrapper  |-> wrapper]

(***************************************************************************)
(* SpecRender                                                              *)
(***************************************************************************)
\* mount: refs initialised, then the effect runs for the initial content
MountPreview(c) ==
  LET r == RunEffect(c, <<>>, c, EmptyHtml, EmptyHtml, 0, {}, <<>>, {})
  IN /\ content = c
     /\ lastContentRef = c
     /\ lastRenderedHtmlRef = r.lastHtml
     /\ wrapperHtml = r.wrapper
     /\ debounceTimerRef = r.ref
     /\ timers = r.timers
     /\ effects = r.effects
     /\ mermaidCacheRef = <<>>
     /\ succeeded = {}
     /\ sinceChange = 0
     /\ LocateIdle
     /\ ScrollIdle
     /\ LaterIdle

InitRender == \E c \in Contents : MountPreview(c)

\* the content prop changes to c
ContentChange(c) ==
  /\ c # content
  /\ Len(effects) < MaxGen
  /\ LET r == RunEffect(c, effects, lastContentRef, lastRenderedHtmlRef,
                        wrapperHtml, debounceTimerRef, timers,
                        mermaidCacheRef, succeeded)
     IN /\ content' = c
        /\ lastContentRef' = c
        /\ lastRenderedHtmlRef' = r.lastHtml
        /\ wrapperHtml' = r.wrapper
        /\ debounceTimerRef' = r.ref
        /\ timers' = r.timers
        /\ effects' = r.effects
  /\ sinceChange' = 0
  /\ UNCHANGED <<mermaidCacheRef, succeeded>>
  /\ UNCHANGED nonRenderVars

\* the debounce timer armed by effect g fires: render()
TimerFire(g) ==
  /\ g \in 1..Len(effects)
  /\ [id |-> g, left |-> 0] \in timers
  /\ effects[g].phase = "armed"
  /\ LET e == Begin(effects[g], g, Len(effects), mermaidCacheRef, succeeded,
                    sinceChange, lastRenderedHtmlRef, effects)
     IN /\ effects' = [effects EXCEPT ![g] = e]
        /\ lastRenderedHtmlRef' = IF e.wrote THEN e.html ELSE lastRenderedHtmlRef
        /\ wrapperHtml' = IF e.wrote THEN e.html ELSE wrapperHtml
  /\ timers' = timers \ {[id |-> g, left |-> 0]}
  /\ UNCHANGED <<content, lastContentRef, debounceTimerRef, mermaidCacheRef,
                 succeeded, sinceChange>>
  /\ UNCHANGED nonRenderVars

\* `mermaid-${Math.random().toString(36).substr(2, 9)}`: a fresh id for each
\* call of the rasterizer
RenderId(g, i) == <<g, i>>

\* mermaid.render settles for node i of the pass of effect g
RasterDone(g, i) ==
  /\ g \in 1..Len(effects)
  /\ effects[g].phase = "rendering"
  /\ i \in 1..Len(effects[g].nodes)
  /\ effects[g].nodes[i].st = "inflight"
  /\ LET text == effects[g].nodes[i].text IN
     IF CacheKey(text) \in FailingKeys
       THEN /\ effects' = [effects EXCEPT ![g].nodes[i].st = "err",
                                          ![g].nodes[i].out = ErrorPlaceholder(text)]
            /\ UNCHANGED <<mermaidCacheRef, succeeded>>
       ELSE /\ effects' = [effects EXCEPT ![g].nodes[i].st = "ok",
                                          ![g].nodes[i].out =
                                              Container(Svg(RenderId(g, i), text))]
            /\ mermaidCacheRef' = CacheStore(mermaidCacheRef, text,
                                             Svg(RenderId(g, i), text))
            /\ succeeded' = succeeded \cup {CacheKey(text)}
  /\ UNCHANGED <<content, lastContentRef, lastRenderedHtmlRef, wrapperHtml,
                 debounceTimerRef, timers, sinceChange>>
  /\ UNCHANGED nonRenderVars

\* Promise.all has resolved: step 4 of render() for effect g
Commit(g) ==
  /\ g \in 1..Len(effects)
  /\ effects[g].phase = "rendering"
  /\ \A i \in 1..Len(effects[g].nodes) : effects[g].nodes[i].st # "inflight"
  /\ LET e == Finish(effects[g], g, Len(effects), lastRenderedHtmlRef, effects)
     IN /\ effects' = [effects EXCEPT ![g] = e]
        /\ lastRenderedHtmlRef' = IF e.wrote THEN e.html ELSE lastRenderedHtmlRef
        /\ wrapperHtml' = IF e.wrote THEN e.html ELSE wrapperHtml
  /\ UNCHANGED <<content, lastContentRef, debounceTimerRef, timers,
                 mermaidCacheRef, succeeded, sinceChange>>
  /\ UNCHANGED nonRenderVars

\* 100 ms pass
TickRender ==
  /\ \/ sinceChange < DebounceTicks
     \/ \E t \in timers : t.left > 0
  /\ sinceChange' = IF sinceChange < DebounceTicks THEN sinceChange + 1 ELSE sinceChange
  /\ timers' = {[id |-> t.id, left |-> IF t.left > 0 THEN t.left - 1 ELSE 0] : t \in timers}
  /\ UNCHANGED <<content, lastContentRef, lastRenderedHtmlRef, wrapperHtml,
                 debounceTimerRef, effects, mermaidCacheRef, succeeded>>
  /\ UNCHANGED nonRenderVars

NextRender ==
  \/ \E c \in Contents : ContentChange(c)
  \/ \E g \in 1..MaxGen : TimerFire(g)
  \/ \E g \in 1..MaxGen : \E i \in 1..2 : RasterDone(g, i)
  \/ \E g \in 1..MaxGen : Commit(g)
  \/ TickRender

SpecRender == InitRender /\ [][NextRender]_vars

\* documents for a pass over several diagrams: one holds the same diagram
\* twice, the second time with surrounding white space
TwinContent == [len |-> 40, prose |-> "q", mermaid |-> <<TextA, TextAPad>>]

PassContents ==
  { EmptyContent,
    [len |-> 10, prose |-> "p", mermaid |-> <<>>],
    [len |-> 20, prose |-> "p", mermaid |-> <<TextA>>],
    TwinContent }

InitPass == \E c \in PassContents : MountPreview(c)

NextPass ==
  \/ \E c \in PassContents : ContentChange(c)
  \/ \E g \in 1..MaxGen : TimerFire(g)
  \/ \E g \in 1..MaxGen : \E i \in 1..2 : RasterDone(g, i)
  \/ \E g \in 1..MaxGen : Commit(g)
  \/ TickRender

SpecPass == InitPass /\ [][NextPass]_vars

(***************************************************************************)
(* Selection-to-source locator: editor-utils.ts getContextInfo and         *)
(* performSearchAndHighlight, called by EditorPane's handleTextSelection.  *)
(* Time advances in ticks of 500 ms.                                       *)
(***************************************************************************)
Hashes(n) == [i \in 1..n |-> "#"]

\* a block: its rendered text and the source line it is written as
Heading(level, text) ==
  [kind |-> "h", level |-> level, text |-> text,
   src |-> Hashes(level) \o <<" ">> \o text]

Paragraph(text) == [kind |-> "p", level |-> 0, text |-> text, src |-> text]

\* a paragraph with inline markup: the rendered text is not the source
Styled(text, src) == [kind |-> "p", level |-> 0, text |-> text, src |-> src]

\* the source line a block is written as
BlockLine(b) == b.src

\* blocks are separated by blank lines: block i is source line 2i-1
SourceLines(d) ==
  [n \in 1..(2 * Len(d) - 1) |->
     IF n % 2 = 1 THEN BlockLine(d[(n + 1) \div 2]) ELSE <<>>]

\* injectLineNumbers: data-line is the 0-based first line of the block
DataLine(b) == 2 * b - 2

T1 == <<"t", "1">>
T2 == <<"t", "2">>
T3 == <<"t", "3">>

Docs ==
  { \* "# A\n\nt1\n\n# B\n\nt2\n\n# C\n\nt3"
    <<Heading(1, <<"A">>), Paragraph(T1), Heading(1, <<"B">>), Paragraph(T2),
      Heading(1, <<"C">>), Paragraph(T3)>>,
    \* the text of heading B also occurs in a paragraph under A
    <<Heading(1, <<"A">>), Paragraph(<<"B", " ">> \o T2),
      Heading(1, <<"B">>), Paragraph(T2)>>,
    \* a paragraph of two sentences
    <<Heading(1, <<"A">>),
      Paragraph(<<"s", "e", "e", " ">> \o T2 \o <<".", " ", "o", "k">>)>>,
    \* text before the first heading, repeated after it
    <<Paragraph(T1), Heading(2, <<"A">>), Paragraph(T1), Paragraph(T3)>>,
    \* a character that escapeRegExp escapes
    <<Paragraph(<<"t", "+", "1">>), Paragraph(T2)>>,
    \* "t1\n\na *b*": emphasis, rendered as "a b"
    <<Paragraph(T1), Styled(<<"a", " ", "b">>, <<"a", " ", "*", "b", "*">>)>>,
    \* "# A\n\nt1\n\n## B\n\nt2": a sub-heading inside the section of A
    <<Heading(1, <<"A">>), Paragraph(T1), Heading(2, <<"B">>), Paragraph(T2)>>,
    \* "b. a b": a short second sentence that repeats a word of the first
    <<Paragraph(<<"b", ".", " ", "a", " ", "b">>)>> }

\* the extent of the documents
MaxBlocks == 6
MaxText == 10

Lower(ch) ==
  CASE ch = "A" -> "a"
    [] ch = "B" -> "b"
    [] ch = "C" -> "c"
    [] OTHER -> ch

\* escapeRegExp: /[.*+?^${}()|[\]\\]/g -> '\\$&'
RegExpSpecial ==
  {".", "*", "+", "?", "^", "$", "{", "}", "(", ")", "|", "[", "]", "\\"}

RECURSIVE escapeRegExp(_)
escapeRegExp(s) ==
  IF s = <<>> THEN <<>>
  ELSE (IF Head(s) \in RegExpSpecial THEN <<"\\", Head(s)>> ELSE <<Head(s)>>)
       \o escapeRegExp(Tail(s))

\* the literal pat is at column k of line, letter case ignored
MatchAt(line, pat, k) ==
  /\ k + Len(pat) - 1 <= Len(line)
  /\ \A j \in 1..Len(pat) : Lower(line[k + j - 1]) = Lower(pat[j])

RECURSIVE LineMatches(_, _, _, _)
LineMatches(line, pat, n, k) ==
  IF k + Len(pat) - 1 > Len(line) THEN <<>>
  ELSE IF MatchAt(line, pat, k)
         THEN <<[line |-> n, startColumn |-> k, endColumn |-> k + Len(pat)]>>
              \o LineMatches(line, pat, n, k + Len(pat))
         ELSE LineMatches(line, pat, n, k + 1)

\* model.findMatches(searchString, scope, isRegex = false, matchCase = false,
\* null, true) over whole lines startLine..endLine
RECURSIVE findMatches(_, _, _, _)
findMatches(lines, pat, startLine, endLine) ==
  IF pat = <<>> \/ startLine > endLine THEN <<>>
  ELSE LineMatches(lines[startLine], pat, startLine, 1)
       \o findMatches(lines, pat, startLine + 1, endLine)

RECURSIVE LeadingHashes(_)
LeadingHashes(line) ==
  IF line # <<>> /\ Head(line) = "#" THEN 1 + LeadingHashes(Tail(line)) ELSE 0

\* a line matched by the regular expression ^#+\s+
IsHeadingLine(line) ==
  LET k == LeadingHashes(line)
  IN k >= 1 /\ Len(line) > k /\ line[k + 1] \in WhiteSpace

\* [.!?\n] of the sentence scan (the full-width forms are not in the alphabet)
SentenceEnd == {".", "!", "?", "\n"}

RECURSIVE ScanBack(_, _)
ScanBack(text, start) ==
  IF start > 0 /\ text[start] \notin SentenceEnd
    THEN ScanBack(text, start - 1) ELSE start

RECURSIVE ScanForward(_, _)
ScanForward(text, end) ==
  IF end < Len(text) /\ text[end + 1] \notin SentenceEnd
    THEN ScanForward(text, end + 1) ELSE end

\* getContextInfo step 1: the sentence around the 0-based offset
Sentence(text, offset) ==
  Trim(SubSeq(text, ScanBack(text, offset) + 1, ScanForward(text, offset)))

\* getContextInfo step 2: text of the nearest heading at or before block b
RECURSIVE NearestHeading(_, _)
NearestHeading(d, b) ==
  IF b = 0 THEN <<>>
  ELSE IF d[b].kind = "h" THEN Trim(d[b].text) ELSE NearestHeading(d, b - 1)

getContextInfo(d, b, offset) ==
  [sentence |-> Sentence(d[b].text, offset),
   heading  |-> NearestHeading(d, b),
   lineHint |-> DataLine(b)]

\* step 1 of performSearchAndHighlight: the range given by the heading
HeadingRange(lines, heading) ==
  LET hm   == findMatches(lines, escapeRegExp(heading), 1, Len(lines))
      st   == IF heading # <<>> /\ hm # <<>> THEN hm[1].line ELSE 1
      next == {n \in 1..Len(lines) : IsHeadingLine(lines[n]) /\ n > st}
  IN [startLine |-> st,
      endLine   |-> IF heading # <<>> /\ hm # <<>> /\ next # {}
                      THEN CHOOSE n \in next : \A k \in next : n <= k
                      ELSE Len(lines)]

\* variant: the line hint is used wherever it points
SearchRangeAnyHint(lines, heading, lineHint) ==
  LET r == HeadingRange(lines, heading)
  IN IF lineHint # -1 THEN [r EXCEPT !.startLine = lineHint + 1] ELSE r

\* step 2: narrowing by the line hint
SearchRange(lines, heading, lineHint) ==
  LET r == HeadingRange(lines, heading)
      adjustedLine == lineHint + 1
  IN IF lineHint # -1 /\ adjustedLine >= r.startLine /\ adjustedLine <= r.endLine
       THEN [r EXCEPT !.startLine = adjustedLine]
       ELSE r

\* step 5: the match whose line is closest to the centre of the viewport,
\* the first of them in document order (distances are doubled)
Closest(ms, visible) ==
  LET dist(i) == Abs(2 * ms[i].line
                     - (visible.startLineNumber + visible.endLineNumber))
      best == CHOOSE i \in 1..Len(ms) :
                /\ \A j \in 1..Len(ms) : dist(i) <= dist(j)
                /\ \A j \in 1..(i - 1) : dist(j) > dist(i)
  IN ms[best]

\* step 3: the sentence within the range
SentenceMatches(lines, sentence, r) ==
  IF sentence # <<>> /\ Len(sentence) > 5
    THEN findMatches(lines, escapeRegExp(sentence), r.startLine, r.endLine)
    ELSE <<>>

\* steps 1-5: bestMatch
BestMatch(lines, text, sentence, heading, lineHint, visible) ==
  LET r   == SearchRange(lines, heading, lineHint)
      sm  == SentenceMatches(lines, sentence, r)
      tm  == findMatches(lines, escapeRegExp(text), r.startLine, r.endLine)
      all == findMatches(lines, escapeRegExp(text), 1, Len(lines))
  IN IF sm # <<>> THEN sm[1]
     ELSE IF tm # <<>> THEN tm[1]
     ELSE IF all # <<>> THEN Closest(all, visible)
     ELSE NoMatch

\* the step of performSearchAndHighlight that gave bestMatch
MatchStage(lines, text, sentence, heading, lineHint, visible) ==
  LET r   == SearchRange(lines, heading, lineHint)
      sm  == SentenceMatches(lines, sentence, r)
      tm  == findMatches(lines, escapeRegExp(text), r.startLine, r.endLine)
      all == findMatches(lines, escapeRegExp(text), 1, Len(lines))
  IN IF sm # <<>> THEN "sentence"
     ELSE IF tm # <<>> THEN "text"
     ELSE IF all # <<>> THEN "document"
     ELSE "none"

\* lines the editor shows
ViewLines == 3

\* editor.revealRangeInCenter
Reveal(line, n) ==
  LET last  == IF n > ViewLines THEN n - ViewLines + 1 ELSE 1
      first == IF line - 1 < 1 THEN 1 ELSE IF line - 1 > last THEN last ELSE line - 1
  IN [startLineNumber |-> first,
      endLineNumber   |-> IF first + ViewLines - 1 > n THEN n ELSE first + ViewLines - 1]

\* variant: the result of the search is not tested
FoundAlways(m) == TRUE

\* if (bestMatch)
Found(m) == m # NoMatch

\* variant: the previous decorations are not handed back to the editor
deltaDecorationsKeep(decos, oldIds, new) == decos \cup new

\* editor.deltaDecorations(oldIds, newDecorations)
deltaDecorations(decos, oldIds, new) ==
  {d \in decos : d.id \notin oldIds} \cup new

\* decorations are aged up to one tick past the highlight period
MaxAge == HighlightTicks + 1

InitLocate ==
  /\ RenderIdle
  /\ ScrollIdle
  /\ LaterIdle
  /\ doc \in Docs
  /\ \E first \in 1..(2 * Len(doc) - 1) :
       visibleRanges = Reveal(first + 1, 2 * Len(doc) - 1)
  /\ selection = NoMatch
  /\ decorations = {}
  /\ highlightDecorations = {}
  /\ locTimers = {}
  /\ isProgrammaticScroll = FALSE
  /\ hlCount = 0
  /\ located = [called |-> FALSE]
  /\ clicked = NoClick

\* performSearchAndHighlight(text, editor, ..., sentence, heading, lineHint)
\* called for block b
Locate(b, text, ctx) ==
  LET lines == SourceLines(doc)
      bestMatch == BestMatch(lines, text, ctx.sentence, ctx.heading,
                             ctx.lineHint, visibleRanges)
      id    == hlCount + 1
  IN /\ located' = [called |-> TRUE, block |-> b, text |-> text,
                    sentence |-> ctx.sentence, heading |-> ctx.heading,
                    lineHint |-> ctx.lineHint, match |-> bestMatch,
                    hrange |-> HeadingRange(lines, ctx.heading),
                    range |-> SearchRange(lines, ctx.heading, ctx.lineHint),
                    stage |-> MatchStage(lines, text, ctx.sentence,
                                         ctx.heading, ctx.lineHint,
                                         visibleRanges),
                    visible |-> visibleRanges,
                    parity |-> IF located.called THEN 1 - located.parity
                               ELSE 0]
     /\ IF Found(bestMatch)
          THEN /\ isProgrammaticScroll' = TRUE
               /\ visibleRanges' = Reveal(bestMatch.line, Len(lines))
               /\ selection' = bestMatch
               /\ decorations' =
                    deltaDecorations(decorations, highlightDecorations,
                                     {[id |-> id, range |-> bestMatch, age |-> 0]})
               /\ highlightDecorations' = {id}
               /\ locTimers' = locTimers \cup
                    {[kind |-> "flag", id |-> id, left |-> ProgrammaticTicks],
                     [kind |-> "clear", id |-> id, left |-> HighlightTicks]}
               /\ hlCount' = id
          ELSE UNCHANGED <<isProgrammaticScroll, visibleRanges, selection,
                           decorations, highlightDecorations, locTimers,
                           hlCount>>

\* handleTextSelection: the user has selected characters from..to of the
\* rendered text of block b
SelectText(b, from, to) ==
  /\ hlCount < MaxHighlights
  /\ b \in 1..Len(doc)
  /\ from \in 1..Len(doc[b].text) /\ to \in from..Len(doc[b].text)
  /\ LET text  == Trim(SubSeq(doc[b].text, from, to))
     IN /\ text # <<>>
        /\ Locate(b, text, getContextInfo(doc, b, from - 1))
  /\ clicked' = NoClick
  /\ UNCHANGED doc
  /\ UNCHANGED nonLocateVars

\* while (start > 0 && /\S/.test(textContent[start - 1])) start--
RECURSIVE WordStart(_, _)
WordStart(text, start) ==
  IF start > 0 /\ text[start] \notin WhiteSpace
    THEN WordStart(text, start - 1) ELSE start

\* while (end < textContent.length && /\S/.test(textContent[end])) end++
RECURSIVE WordEnd(_, _)
WordEnd(text, end) ==
  IF end < Len(text) /\ text[end + 1] \notin WhiteSpace
    THEN WordEnd(text, end + 1) ELSE end

\* textContent.substring(start, end).trim()
WordAt(text, offset) ==
  Trim(SubSeq(text, WordStart(text, offset) + 1, WordEnd(text, offset)))

\* variant: any word that is not empty is searched
LongEnoughAny(word) == Len(word) > 0

\* if (word.length > 1)
LongEnough(word) == Len(word) > 1

\* handlePreviewClick with no selection: caretRangeFromPoint gives the text
\* node of block b (a block without inline markup is one text node) and the
\* 0-based offset of the caret in it
ClickText(b, offset) ==
  /\ b \in 1..Len(doc)
  /\ doc[b].kind = "h" \/ doc[b].text = doc[b].src
  /\ offset \in 0..Len(doc[b].text)
  /\ LET word == WordAt(doc[b].text, offset)
     IN /\ clicked' = [valid |-> TRUE, block |-> b, offset |-> offset,
                       word |-> word,
                       parity |-> IF clicked.valid THEN 1 - clicked.parity
                                  ELSE 0]
        /\ IF LongEnough(word)
             THEN /\ hlCount < MaxHighlights
                  /\ Locate(b, word, getContextInfo(doc, b, offset))
             ELSE UNCHANGED <<isProgrammaticScroll, visibleRanges, selection,
                              decorations, highlightDecorations, locTimers,
                              hlCount, located>>
  /\ UNCHANGED doc
  /\ UNCHANGED nonLocateVars

\* the 500 ms timer of a locate fires
FlagTimerFire(id) ==
  /\ [kind |-> "flag", id |-> id, left |-> 0] \in locTimers
  /\ isProgrammaticScroll' = FALSE
  /\ locTimers' = locTimers \ {[kind |-> "flag", id |-> id, left |-> 0]}
  /\ clicked' = NoClick
  /\ UNCHANGED <<doc, visibleRanges, selection, decorations,
                 highlightDecorations, hlCount, located>>
  /\ UNCHANGED nonLocateVars

\* the 1500 ms timer of a highlight fires
ClearTimerFire(id) ==
  /\ [kind |-> "clear", id |-> id, left |-> 0] \in locTimers
  /\ decorations' = deltaDecorations(decorations, highlightDecorations, {})
  /\ highlightDecorations' = {}
  /\ locTimers' = locTimers \ {[kind |-> "clear", id |-> id, left |-> 0]}
  /\ clicked' = NoClick
  /\ UNCHANGED <<doc, visibleRanges, selection, isProgrammaticScroll,
                 hlCount, located>>
  /\ UNCHANGED nonLocateVars

\* 500 ms pass; a timer that is due fires before time moves on
TickLocate ==
  /\ \A t \in locTimers : t.left > 0
  /\ \/ locTimers # {}
     \/ \E d \in decorations : d.age < MaxAge
  /\ locTimers' = {[t EXCEPT !.left = t.left - 1] : t \in locTimers}
  /\ decorations' =
       {[d EXCEPT !.age = IF d.age < MaxAge THEN d.age + 1 ELSE d.age] :
          d \in decorations}
  /\ clicked' = NoClick
  /\ UNCHANGED <<doc, visibleRanges, selection, highlightDecorations,
                 isProgrammaticScroll, hlCount, located>>
  /\ UNCHANGED nonLocateVars

NextLocate ==
  \/ \E b \in 1..MaxBlocks : \E from \in 1..MaxText : \E to \in 1..MaxText :
       SelectText(b, from, to)
  \/ \E id \in 1..MaxHighlights : FlagTimerFire(id)
  \/ \E id \in 1..MaxHighlights : ClearTimerFire(id)
  \/ TickLocate

SpecLocate == InitLocate /\ [][NextLocate]_vars

\* the locator driven by clicks on the preview
NextClick ==
  \/ \E b \in 1..MaxBlocks : \E offset \in 0..MaxText : ClickText(b, offset)
  \/ \E id \in 1..MaxHighlights : FlagTimerFire(id)
  \/ \E id \in 1..MaxHighlights : ClearTimerFire(id)
  \/ TickLocate

SpecClick == InitLocate /\ [][NextClick]_vars

(***************************************************************************)
(* Preview-driven scroll synchronisation: the EditorPane whose preview     *)
(* scroll drives the editor (handlePreviewScroll, the [previewContent]     *)
(* effect), with the MarkdownPreview that commits through                  *)
(* setRenderedContent.                                                     *)
(***************************************************************************)
Max(a, b) == IF a > b THEN a ELSE b

Min(a, b) == IF a < b THEN a ELSE b

\* rendered heights of the content values
ContentHeights == {300, 1000, 1250}

\* scroll offsets the panes are moved to
ScrollOffsets == {0, 125, 250, 500, 750, 800}

\* editor.getScrollHeight() values
EditorScrollHeights == {500, 1000, 1300}

\* element.scrollHeight: never less than clientHeight
ScrollHeight(h) == Max(h, PreviewClientHeight)

\* target.scrollHeight - target.clientHeight
PreviewRange(h) == ScrollHeight(h) - PreviewClientHeight

\* editor.getScrollHeight() - editor.getLayoutInfo().height
EditorRange(geom) == geom.scrollHeight - geom.height

\* scrollable = scrollHeight > clientHeight
Scrollable(h) == ScrollHeight(h) > PreviewClientHeight

\* variant: the fraction is taken of the full scroll height
PercentageOfHeight(scrollTop, h) ==
  [num |-> scrollTop, den |-> Max(ScrollHeight(h), 1)]

\* variant: the fraction is measured from the bottom
PercentageFromBottom(scrollTop, h) ==
  [num |-> PreviewRange(h) - scrollTop, den |-> Max(PreviewRange(h), 1)]

\* percentage = previewScrollTop / Math.max(previewScrollHeight, 1)
Percentage(scrollTop, h) ==
  [num |-> scrollTop, den |-> Max(PreviewRange(h), 1)]

\* percentage * editorScrollHeight
Times(q, n) == [num |-> q.num * n, den |-> q.den]

\* comparison of fractions with positive denominators
RatLeq(p, q) == p.num * q.den <= q.num * p.den

RatEq(p, q) == p.num * q.den = q.num * p.den

\* the offsets a pane of this content height can be scrolled to
Offsets(h) == {t \in ScrollOffsets : t <= PreviewRange(h)}

\* EditorPane and MarkdownPreview have mounted with some content; the
\* editor has not called onMount yet and nothing is committed to the DOM
InitScroll ==
  /\ RenderIdle
  /\ LocateIdle
  /\ LaterIdle
  /\ editorRef = FALSE
  /\ previewContent \in ContentHeights
  /\ domHeight = 0
  /\ renderInFlight = TRUE
  /\ previewScrollTop = 0
  /\ editorGeom = [scrollHeight |-> 0, height |-> 0]
  /\ editorScrollTop = Zero
  /\ handleMouseWheel = TRUE
  /\ optionsSet = FALSE
  /\ synced = FALSE
  /\ prevSync = [valid |-> FALSE]

\* handleEditorDidMount
MountEditor(sh) ==
  /\ ~editorRef
  /\ editorRef' = TRUE
  /\ editorGeom' = [scrollHeight |-> sh, height |-> EditorLayoutHeight]
  /\ UNCHANGED <<previewContent, domHeight, renderInFlight, previewScrollTop,
                 editorScrollTop, handleMouseWheel, optionsSet, synced, prevSync>>
  /\ UNCHANGED nonScrollVars

\* previewContent changes to c: MarkdownPreview starts a pass for it, then
\* EditorPane's effect reads the preview element as it is now
PreviewContentChange(c) ==
  /\ c # previewContent
  /\ previewContent' = c
  /\ renderInFlight' = TRUE
  /\ IF editorRef
       THEN /\ handleMouseWheel' = ~Scrollable(domHeight)
            /\ optionsSet' = TRUE
       ELSE UNCHANGED <<handleMouseWheel, optionsSet>>
  /\ UNCHANGED <<editorRef, domHeight, previewScrollTop, editorGeom,
                 editorScrollTop, synced, prevSync>>
  /\ UNCHANGED nonScrollVars

\* the active pass ends: setRenderedContent, React replaces the preview DOM
PreviewCommit ==
  /\ renderInFlight
  /\ renderInFlight' = FALSE
  /\ domHeight' = previewContent
  /\ previewScrollTop' = Min(previewScrollTop, PreviewRange(previewContent))
  /\ synced' = (synced /\ previewContent = domHeight)
  /\ prevSync' = IF previewContent = domHeight THEN prevSync ELSE [valid |-> FALSE]
  /\ UNCHANGED <<editorRef, previewContent, editorGeom, editorScrollTop,
                 handleMouseWheel, optionsSet>>
  /\ UNCHANGED nonScrollVars

\* the preview is scrolled to t and its scroll event runs handlePreviewScroll
PreviewScroll(t) ==
  /\ t \in Offsets(domHeight)
  /\ previewScrollTop' = t
  /\ IF editorRef /\ ~(PreviewRange(domHeight) <= 0)
       THEN /\ editorScrollTop' =
                 Times(Percentage(t, domHeight), EditorRange(editorGeom))
            /\ synced' = TRUE
            /\ prevSync' = IF synced
                             THEN [valid |-> TRUE, scrollTop |-> previewScrollTop,
                                   editorScrollTop |-> editorScrollTop]
                             ELSE [valid |-> FALSE]
       ELSE /\ UNCHANGED editorScrollTop
            /\ synced' = FALSE
            /\ prevSync' = [valid |-> FALSE]
  /\ UNCHANGED <<editorRef, previewContent, domHeight, renderInFlight,
                 editorGeom, handleMouseWheel, optionsSet>>
  /\ UNCHANGED nonScrollVars

\* the user turns the mouse wheel over the editor
EditorWheel(t) ==
  /\ editorRef
  /\ handleMouseWheel
  /\ t \in ScrollOffsets
  /\ t <= EditorRange(editorGeom)
  /\ editorScrollTop # [num |-> t, den |-> 1]
  /\ editorScrollTop' = [num |-> t, den |-> 1]
  /\ synced' = FALSE
  /\ prevSync' = [valid |-> FALSE]
  /\ UNCHANGED <<editorRef, previewContent, domHeight, renderInFlight,
                 previewScrollTop, editorGeom, handleMouseWheel, optionsSet>>
  /\ UNCHANGED nonScrollVars

NextScroll ==
  \/ \E sh \in EditorScrollHeights : MountEditor(sh)
  \/ \E c \in ContentHeights : PreviewContentChange(c)
  \/ PreviewCommit
  \/ \E t \in ScrollOffsets : PreviewScroll(t)
  \/ \E t \in ScrollOffsets : EditorWheel(t)

SpecScroll == InitScroll /\ [][NextScroll]_vars

(***************************************************************************)
(* Bidirectional scroll synchronisation: the EditorPane whose two scroll   *)
(* handlers drive each other's pane under the isScrolling lock.  Both      *)
(* panes have the same scroll range and no data-line element is close, so  *)
(* the percentage fallback maps an offset to itself.  Time advances in     *)
(* ticks of 50 ms.                                                         *)
(***************************************************************************)
\* scroll offsets of the two panes
BidiOffsets == {0, 125, 250}

\* setTimeout(() => { isScrolling.current = null }, 100)
ArmGuard(ts, id) == ts \cup {[id |-> id, left |-> GuardTicks]}

\* a write of element.scrollTop queues a scroll event when the offset changes
QueueEcho(old, new, pend) ==
  IF new # old THEN [valid |-> TRUE, driver |-> "editor", age |-> 0] ELSE pend

InitBidi ==
  /\ RenderIdle
  /\ LocateIdle
  /\ ScrollIdle
  /\ KeepIdle
  /\ ResyncIdle
  /\ SaveIdle
  /\ GutterIdle
  /\ FsIdle
  /\ AppIdle
  /\ ZoomIdle
  /\ isScrolling = "null"
  /\ guardTimers = {}
  /\ biEditorTop = 0
  /\ biPreviewTop = 0
  /\ pendingEcho = NoEcho
  /\ scrollEvents = 0
  /\ echoSeen = NoEcho

\* minDiff = Infinity
Infinity == -1

\* parseInt(el.getAttribute('data-line') || fallback): the number in the
\* attribute, or the fallback when the attribute is the empty string
ParseDataLine(node, fallback) == IF node.blank THEN fallback ELSE node.line

\* editor.getVisibleRanges()[0].startLineNumber with lines of 25 pixels
VisibleStartLine(scrollTop) == scrollTop \div 25 + 1

\* the loop over querySelectorAll('[data-line]') of the editor's scroll
\* handler: the first element whose line is closest to lineNumber - 1
RECURSIVE SyncTarget(_, _, _, _, _)
SyncTarget(nodes, lineNumber, i, targetElement, minDiff) ==
  IF i > Len(nodes) THEN [targetElement |-> targetElement, minDiff |-> minDiff]
  ELSE LET line == ParseDataLine(nodes[i], 0)
           diff == Abs(line - (lineNumber - 1))
       IN IF minDiff = Infinity \/ diff < minDiff
          THEN SyncTarget(nodes, lineNumber, i + 1, i, diff)
          ELSE SyncTarget(nodes, lineNumber, i + 1, targetElement, minDiff)

\* previewRef.current.scrollTop after the editor's handler wrote it: 10
\* pixels above the closest element when one is within 50 lines, else the
\* same fraction of the scroll range as the editor's
SyncedPreviewTop(pane, t) ==
  LET found == SyncTarget(pane.nodes, VisibleStartLine(t), 1, 0, Infinity)
  IN IF found.targetElement # 0 /\ found.minDiff < 50
     THEN Max(0, Min(pane.nodes[found.targetElement].offsetTop - 10,
                     Max(0, pane.scrollHeight - pane.clientHeight)))
     ELSE t

\* the user scrolls the editor to t: editor.onDidScrollChange
EditorUserScroll(t) ==
  /\ scrollEvents < MaxScrollEvents
  /\ t # biEditorTop
  /\ biEditorTop' = t
  /\ IF isScrolling = "preview"
       THEN UNCHANGED <<isScrolling, biPreviewTop, pendingEcho, guardTimers,
                        scrollEvents>>
       ELSE /\ isScrolling' = "editor"
            /\ biPreviewTop' = SyncedPreviewTop(previewNodes, t)
            /\ pendingEcho' = QueueEcho(biPreviewTop,
                                        SyncedPreviewTop(previewNodes, t),
                                        pendingEcho)
            /\ guardTimers' = ArmGuard(guardTimers, scrollEvents + 1)
            /\ scrollEvents' = scrollEvents + 1
  /\ UNCHANGED echoSeen
  /\ UNCHANGED nonBidiVars

\* handlePreviewScroll; editor.setScrollTop fires onDidScrollChange inside
\* the call, which returns at once because the lock names the preview
HandlePreviewScroll ==
  IF isScrolling = "editor"
    THEN UNCHANGED <<isScrolling, biEditorTop, guardTimers, scrollEvents>>
    ELSE /\ isScrolling' = "preview"
         /\ biEditorTop' = biPreviewTop'
         /\ guardTimers' = ArmGuard(guardTimers, scrollEvents + 1)
         /\ scrollEvents' = scrollEvents + 1

\* the user scrolls the preview to t and the scroll event is delivered
PreviewUserScroll(t) ==
  /\ scrollEvents < MaxScrollEvents
  /\ ~pendingEcho.valid
  /\ t # biPreviewTop
  /\ biPreviewTop' = t
  /\ HandlePreviewScroll
  /\ UNCHANGED <<pendingEcho, echoSeen>>
  /\ UNCHANGED nonBidiVars

\* the scroll event queued by the editor handler's write is delivered
EchoDeliver ==
  /\ pendingEcho.valid
  /\ scrollEvents < MaxScrollEvents
  /\ pendingEcho' = NoEcho
  /\ echoSeen' = [valid |-> TRUE, driver |-> pendingEcho.driver,
                  age |-> pendingEcho.age, lock |-> isScrolling]
  /\ UNCHANGED biPreviewTop
  /\ HandlePreviewScroll
  /\ UNCHANGED nonBidiVars

\* a guard timer fires
GuardTimerFire(id) ==
  /\ [id |-> id, left |-> 0] \in guardTimers
  /\ isScrolling' = "null"
  /\ guardTimers' = guardTimers \ {[id |-> id, left |-> 0]}
  /\ UNCHANGED <<biEditorTop, biPreviewTop, pendingEcho, scrollEvents, echoSeen>>
  /\ UNCHANGED nonBidiVars

\* 50 ms pass; a timer that is due fires first, and a queued scroll event is
\* delivered before the guard window of its write has passed
TickBidi ==
  /\ \A t \in guardTimers : t.left > 0
  /\ guardTimers # {}
  /\ pendingEcho.valid => pendingEcho.age + 1 < GuardTicks
  /\ guardTimers' = {[t EXCEPT !.left = t.left - 1] : t \in guardTimers}
  /\ pendingEcho' = IF pendingEcho.valid
                      THEN [pendingEcho EXCEPT !.age = pendingEcho.age + 1]
                      ELSE pendingEcho
  /\ UNCHANGED <<isScrolling, biEditorTop, biPreviewTop, scrollEvents, echoSeen>>
  /\ UNCHANGED nonBidiVars

NextBidi ==
  \/ \E t \in BidiOffsets : EditorUserScroll(t)
  \/ \E t \in BidiOffsets : PreviewUserScroll(t)
  \/ EchoDeliver
  \/ \E id \in 1..MaxScrollEvents : GuardTimerFire(id)
  \/ TickBidi

SpecBidi == InitBidi /\ [][NextBidi]_vars

(***************************************************************************)
(* Scroll preservation of MarkdownPreview: handleScroll, the commit step   *)
(* of render() and the ResizeObserver callback of a chart.                 *)
(***************************************************************************)
\* scrollHeight - clientHeight of the rendered content values
ContentRanges == {250, 500}

\* offsets the preview is scrolled to
KeepOffsets == {0, 125, 250, 500}

\* element.scrollTop = v: the offset is clamped to the scroll range
SetScrollTop(v, range) == Min(v, range)

InitKeep ==
  /\ RenderIdle
  /\ LocateIdle
  /\ ScrollIdle
  /\ BidiIdle
  /\ ResyncIdle
  /\ SaveIdle
  /\ GutterIdle
  /\ FsIdle
  /\ AppIdle
  /\ ZoomIdle
  /\ containerScrollTop = 0
  /\ lastScrollTopRef = 0
  /\ scrollEventPending = FALSE
  /\ contentRange = 0
  /\ commitCount = 0
  /\ lastCommit = NoCommit

\* the preview is scrolled to t (by the user, or by scrollTo); the browser
\* queues the scroll event
ScrollPreviewTo(t) ==
  /\ t <= contentRange
  /\ t # containerScrollTop
  /\ containerScrollTop' = t
  /\ scrollEventPending' = TRUE
  /\ UNCHANGED <<lastScrollTopRef, contentRange, commitCount, lastCommit>>
  /\ UNCHANGED nonKeepVars

\* the queued scroll event is delivered: handleScroll
HandleScroll ==
  /\ scrollEventPending
  /\ lastScrollTopRef' = containerScrollTop
  /\ scrollEventPending' = FALSE
  /\ UNCHANGED <<containerScrollTop, contentRange, commitCount, lastCommit>>
  /\ UNCHANGED nonKeepVars

\* step 4 of render() for new HTML whose scroll range is r: the wrapper's
\* innerHTML is replaced and container.scrollTop is set to the recorded
\* offset, in one task
CommitStep(r) ==
  /\ commitCount < MaxCommits
  /\ LET currentScroll == lastScrollTopRef
         after == SetScrollTop(currentScroll, r)
     IN /\ containerScrollTop' = after
        /\ scrollEventPending' =
             (scrollEventPending \/ after # containerScrollTop)
        /\ lastCommit' = [valid |-> TRUE, before |-> containerScrollTop,
                          after |-> after, range |-> r,
                          undelivered |-> scrollEventPending]
  /\ contentRange' = r
  /\ commitCount' = commitCount + 1
  /\ UNCHANGED lastScrollTopRef
  /\ UNCHANGED nonKeepVars

\* the ResizeObserver of a chart fires: chart.resize(), then
\* container.scrollTop = lastScrollTopRef.current
ChartResize ==
  /\ commitCount > 0
  /\ containerScrollTop # SetScrollTop(lastScrollTopRef, contentRange)
  /\ containerScrollTop' = SetScrollTop(lastScrollTopRef, contentRange)
  /\ scrollEventPending' = TRUE
  /\ UNCHANGED <<lastScrollTopRef, contentRange, commitCount, lastCommit>>
  /\ UNCHANGED nonKeepVars

NextKeep ==
  \/ \E t \in KeepOffsets : ScrollPreviewTo(t)
  \/ HandleScroll
  \/ \E r \in ContentRanges : CommitStep(r)
  \/ ChartResize

SpecKeep == InitKeep /\ [][NextKeep]_vars

(***************************************************************************)
(* Resync of the editor buffer with the content prop: the [content] effect *)
(* of EditorPane, in the revision that tests hasTextFocus and in the       *)
(* revision that issues executeEdits.  A value is the length of the text;  *)
(* texts of different lengths are different.                               *)
(***************************************************************************)
\* the document values, by length
DocValues == {1, 2, 3}

\* editor.setValue(content); editor.setPosition(position): the position is
\* validated against the new text
SetValueKeepPosition(pos, value) == Min(pos, value)

\* executeEdits over the full model range: the cursor ends after the
\* inserted text
ExecuteEditsPosition(pos, value) == value

\* content !== lastValueRef.current, with every content
NeedsResyncAlways(c, ref) == TRUE

\* content !== lastValueRef.current
NeedsResync(c, ref) == c # ref

\* the [content] effect for the content value c
RunResync(c) ==
  IF resyncMounted /\ NeedsResync(c, lastValueRef)
    THEN IF guardRevision /\ hasTextFocus
           THEN /\ UNCHANGED <<buffer, position, lastValueRef>>
                /\ lastResync' = [valid |-> TRUE, focused |-> hasTextFocus,
                                  replaced |-> FALSE, posBefore |-> position,
                                  posAfter |-> position,
                                  refBefore |-> lastValueRef,
                                  refAfter |-> lastValueRef]
           ELSE /\ buffer' = c
                /\ position' = IF guardRevision
                                 THEN SetValueKeepPosition(position, c)
                                 ELSE ExecuteEditsPosition(position, c)
                /\ lastValueRef' = c
                /\ lastResync' = [valid |-> TRUE, focused |-> hasTextFocus,
                                  replaced |-> TRUE, posBefore |-> position,
                                  posAfter |-> position',
                                  refBefore |-> lastValueRef, refAfter |-> c]
    ELSE UNCHANGED <<buffer, position, lastValueRef, lastResync>>

\* EditorPane has rendered with some content; the editor was created with
\* defaultValue = content and has not called onMount yet
InitResync ==
  /\ RenderIdle
  /\ LocateIdle
  /\ ScrollIdle
  /\ BidiIdle
  /\ KeepIdle
  /\ SaveIdle
  /\ GutterIdle
  /\ FsIdle
  /\ AppIdle
  /\ ZoomIdle
  /\ guardRevision \in BOOLEAN
  /\ resyncMounted = FALSE
  /\ contentProp \in DocValues
  /\ buffer = contentProp
  /\ lastValueRef = contentProp
  /\ hasTextFocus = FALSE
  /\ position = 0
  /\ lastResync = NoResync

\* handleEditorDidMount
ResyncMount ==
  /\ ~resyncMounted
  /\ resyncMounted' = TRUE
  /\ UNCHANGED <<guardRevision, contentProp, buffer, lastValueRef,
                 hasTextFocus, position, lastResync>>
  /\ UNCHANGED nonResyncVars

\* the user puts the cursor into the editor, or leaves it
FocusChange ==
  /\ resyncMounted
  /\ hasTextFocus' = ~hasTextFocus
  /\ UNCHANGED <<guardRevision, resyncMounted, contentProp, buffer,
                 lastValueRef, position, lastResync>>
  /\ UNCHANGED nonResyncVars

\* the user types: the buffer becomes v with the cursor at pos,
\* handleEditorChange sets lastValueRef to v and calls onChange, App sets
\* content, and the effect runs for it against the lastValueRef just set
TypeText(v, pos) ==
  /\ resyncMounted /\ hasTextFocus
  /\ v # buffer
  /\ pos <= v
  /\ contentProp' = v
  /\ lastValueRef' = v
  /\ buffer' = v
  /\ IF NeedsResync(v, v) /\ ~(guardRevision /\ hasTextFocus)
       THEN /\ position' = IF guardRevision
                             THEN SetValueKeepPosition(pos, v)
                             ELSE ExecuteEditsPosition(pos, v)
            /\ lastResync' = [valid |-> TRUE, focused |-> hasTextFocus,
                              replaced |-> TRUE, posBefore |-> pos,
                              posAfter |-> position',
                              refBefore |-> v, refAfter |-> v]
       ELSE /\ position' = pos
            /\ UNCHANGED lastResync
  /\ UNCHANGED <<guardRevision, resyncMounted, hasTextFocus>>
  /\ UNCHANGED nonResyncVars

\* App sets content from outside the editor (file loaded, changes
\* reverted) and the effect runs for it
ExternalContent(c) ==
  /\ c # contentProp
  /\ contentProp' = c
  /\ RunResync(c)
  /\ UNCHANGED <<guardRevision, resyncMounted, hasTextFocus>>
  /\ UNCHANGED nonResyncVars

NextResync ==
  \/ ResyncMount
  \/ FocusChange
  \/ \E v \in DocValues : \E pos \in 0..3 : TypeText(v, pos)
  \/ \E c \in DocValues : ExternalContent(c)

SpecResync == InitResync /\ [][NextResync]_vars

(***************************************************************************)
(* Saving: App.handleSave with validateContent, called by the toolbar      *)
(* button with the handleSave of the latest render and by the Ctrl/Cmd+S   *)
(* command with the handleSave that handleEditorDidMount closed over.  A   *)
(* document is a sequence of lines.                                        *)
(***************************************************************************)
\* the line ``` and the line ```mermaid
Fence == "fence"
MermaidFence == "fence mermaid"

\* the lines: a bare fence, a mermaid fence, text, an empty line and a line
\* of white space
LineKinds == {Fence, MermaidFence, "x", "", " "}

\* documents of up to MaxLines lines
SaveDocs == UNION {[1..n -> LineKinds] : n \in 0..MaxLines}

\* the documents the user edits to
EditDocs == {<<"x">>, <<MermaidFence, " ", Fence>>, <<Fence, "x">>,
             <<MermaidFence, "x", Fence>>}

\* a line matched by /^```/gm
FenceLine(l) == l \in {Fence, MermaidFence}

\* a line matched by \s*
BlankLine(l) == l \in {"", " "}

\* (content.match(/^```/gm) || []).length
CodeBlockCount(d) == Cardinality({i \in 1..Len(d) : FenceLine(d[i])})

\* content.match(/```mermaid([\s\S]*?)```/g): each match runs from a
\* MermaidFence to the next Fence of any line, and the scan goes on after it
RECURSIVE MermaidBlocks(_, _)
MermaidBlocks(d, from) ==
  LET opens == {i \in from..Len(d) :
                  d[i] = MermaidFence /\ \E j \in (i + 1)..Len(d) : FenceLine(d[j])}
  IN IF opens = {} THEN <<>>
     ELSE LET i == CHOOSE k \in opens : \A m \in opens : k <= m
              j == CHOOSE k \in (i + 1)..Len(d) :
                     /\ FenceLine(d[k])
                     /\ \A m \in (i + 1)..(k - 1) : ~FenceLine(d[m])
          IN <<[first |-> i, last |-> j]>> \o MermaidBlocks(d, j + 1)

\* block.replace(/```mermaid|```|\s/g, '').length === 0
EmptyBlock(d, b) == \A k \in (b.first + 1)..(b.last - 1) : BlankLine(d[k])

\* variant: only the fences are counted
validateFencesOnly(d) ==
  IF CodeBlockCount(d) % 2 # 0 THEN "unclosed" ELSE "null"

\* validateContent: the error, or null
validateContent(d) ==
  IF CodeBlockCount(d) % 2 # 0 THEN "unclosed"
  ELSE IF \E n \in 1..Len(MermaidBlocks(d, 1)) :
            EmptyBlock(d, MermaidBlocks(d, 1)[n])
         THEN "emptyMermaid"
         ELSE "null"

\* a file has been loaded: content is what is on disk
InitSave ==
  /\ RenderIdle
  /\ LocateIdle
  /\ ScrollIdle
  /\ BidiIdle
  /\ KeepIdle
  /\ ResyncIdle
  /\ GutterIdle
  /\ FsIdle
  /\ AppIdle
  /\ ZoomIdle
  /\ appContent \in SaveDocs
  /\ saveMounted = FALSE
  /\ commandContent = <<>>
  /\ saveStatus = "idle"
  /\ isSaveProgressModalOpen = FALSE
  /\ pendingSaves = {}
  /\ statusTimers = {}
  /\ disk = appContent
  /\ backupFile = NoFile
  /\ saveCount = 0
  /\ toast = "none"
  /\ lastPress = NoPress

\* handleEditorDidMount: editor.addCommand(CtrlCmd | KeyS, () => onSave())
\* with the onSave of this render
SaveEditorMount ==
  /\ ~saveMounted
  /\ saveMounted' = TRUE
  /\ commandContent' = appContent
  /\ UNCHANGED <<appContent, saveStatus, isSaveProgressModalOpen,
                 pendingSaves, statusTimers, disk, backupFile, saveCount,
                 toast, lastPress>>
  /\ UNCHANGED nonSaveVars

\* the user edits: handleEditorChange, setContent
EditContent(c) ==
  /\ saveMounted
  /\ c # appContent
  /\ appContent' = c
  /\ UNCHANGED <<saveMounted, commandContent, saveStatus,
                 isSaveProgressModalOpen, pendingSaves, statusTimers, disk,
                 backupFile, saveCount, toast, lastPress>>
  /\ UNCHANGED nonSaveVars

\* handleSave with content c in its closure, up to the first await
StartSave(via, c) ==
  /\ lastPress' = [valid |-> TRUE, via |-> via, content |-> c,
                   current |-> appContent,
                   error |-> validateContent(c),
                   parity |-> IF lastPress.valid THEN 1 - lastPress.parity
                              ELSE 0]
  /\ IF validateContent(c) # "null"
       THEN /\ toast' = "error"
            /\ UNCHANGED <<saveStatus, isSaveProgressModalOpen, pendingSaves,
                           saveCount>>
       ELSE /\ isSaveProgressModalOpen' = TRUE
            /\ saveStatus' = "processing"
            /\ pendingSaves' = pendingSaves \cup
                                 {[id |-> saveCount + 1, content |-> c]}
            /\ saveCount' = saveCount + 1
            /\ UNCHANGED toast
  /\ UNCHANGED <<appContent, saveMounted, commandContent, statusTimers, disk,
                 backupFile>>
  /\ UNCHANGED nonSaveVars

\* a handleSave call, while the calls are counted up to MaxSaves
HandleSave(via, c) ==
  /\ saveCount < MaxSaves
  /\ StartSave(via, c)

\* the toolbar button: onSave of the latest render
PressSaveButton == HandleSave("button", appContent)

\* Ctrl/Cmd+S in the editor: the onSave registered at mount
PressSaveCommand ==
  /\ saveMounted
  /\ HandleSave("command", commandContent)

\* await saveFile(currentFile, content) settles for the call id
SaveFileSettles(id, ok) ==
  /\ \E p \in pendingSaves :
       /\ p.id = id
       /\ pendingSaves' = pendingSaves \ {p}
       /\ IF ok
            THEN /\ backupFile' = [exists |-> TRUE, content |-> disk]
                 /\ disk' = p.content
                 /\ saveStatus' = "success"
                 /\ toast' = "success"
            ELSE /\ saveStatus' = "error"
                 /\ UNCHANGED <<disk, backupFile, toast>>
  /\ statusTimers' = statusTimers \cup {id}
  /\ UNCHANGED <<appContent, saveMounted, commandContent,
                 isSaveProgressModalOpen, saveCount, lastPress>>
  /\ UNCHANGED nonSaveVars

\* setTimeout(() => { setIsSaveProgressModalOpen(false);
\* setSaveStatus('idle') }, ...), 1000 ms after a success and 3000 ms after
\* an error
StatusTimerFire(id) ==
  /\ id \in statusTimers
  /\ statusTimers' = statusTimers \ {id}
  /\ isSaveProgressModalOpen' = FALSE
  /\ saveStatus' = "idle"
  /\ UNCHANGED <<appContent, saveMounted, commandContent, pendingSaves, disk,
                 backupFile, saveCount, toast, lastPress>>
  /\ UNCHANGED nonSaveVars

NextSave ==
  \/ SaveEditorMount
  \/ \E c \in EditDocs : EditContent(c)
  \/ PressSaveButton
  \/ PressSaveCommand
  \/ \E id \in 1..MaxSaves : \E ok \in BOOLEAN : SaveFileSettles(id, ok)
  \/ \E id \in 1..MaxSaves : StatusTimerFire(id)

SpecSave == InitSave /\ [][NextSave]_vars

\* save requests that overlap: the button is pressed again while an earlier
\* save is in flight or its modal is still shown
MaxOverlappingSaves == 2

\* the documents that are loaded when the saves overlap
FeedbackDocs == {<<"x">>, <<Fence, "x">>}

InitFeedback ==
  /\ InitSave
  /\ appContent \in FeedbackDocs

\* the toolbar button, pressed again
PressSaveAgain ==
  /\ saveCount < MaxOverlappingSaves
  /\ StartSave("button", appContent)

NextFeedback ==
  \/ SaveEditorMount
  \/ \E c \in EditDocs : EditContent(c)
  \/ PressSaveAgain
  \/ \E id \in 1..MaxOverlappingSaves : \E ok \in BOOLEAN :
       SaveFileSettles(id, ok)
  \/ \E id \in 1..MaxOverlappingSaves : StatusTimerFire(id)

SpecFeedback == InitFeedback /\ [][NextFeedback]_vars

(***************************************************************************)
(* saveFile on a file-system handle, one await at a time.  Three versions: *)
(* "hook" is useFileSystem.saveFile, "utils" is saveFile of the fileSystem *)
(* utilities with a directory handle, "direct" is saveFile of the          *)
(* fileSystem utilities without one.  A writable stream writes to a swap   *)
(* file that close() moves over the file.  Contents are numbers, 0 the     *)
(* empty file.                                                             *)
(***************************************************************************)
FsRevisions == {"hook", "utils", "direct"}

FileValues == {1, 2}

\* the awaits of each version, in order
Awaits(rev) ==
  CASE rev = "hook" -> <<"resolveDir", "getFile", "bakHandle", "bakCreateWritable",
                         "bakWrite", "bakClose", "createWritable", "write",
                         "close", "refreshDir">>
    [] rev = "utils" -> <<"bakHandle", "bakCreateWritable", "getFile", "bakWrite",
                          "bakClose", "createWritable", "write", "close">>
    [] rev = "direct" -> <<"createWritable", "write", "close">>

\* the awaits inside the "Create Backup" part
BackupAwaits == {"bakHandle", "bakCreateWritable", "bakWrite", "bakClose"}

\* the awaits inside try { ... } catch (e) { console.warn(...) } of "utils"
WarnOnly == {"bakHandle", "bakCreateWritable", "getFile", "bakWrite", "bakClose"}

\* the await after pc, or "done"
AfterAwait(rev, pc) ==
  LET a == Awaits(rev)
      i == CHOOSE k \in 1..Len(a) : a[k] = pc
  IN IF i = Len(a) THEN "done" ELSE a[i + 1]

InitFs ==
  /\ RenderIdle
  /\ LocateIdle
  /\ ScrollIdle
  /\ BidiIdle
  /\ KeepIdle
  /\ ResyncIdle
  /\ SaveIdle
  /\ GutterIdle
  /\ AppIdle
  /\ ZoomIdle
  /\ fsRevision \in FsRevisions
  /\ fsPc = "idle"
  /\ fileContent \in FileValues
  /\ bakFile = NoFile
  /\ bakStream = NoStream
  /\ fileStream = NoStream
  /\ fsOld = 0
  /\ fsNew = 0
  /\ fsResult = "none"
  /\ fsHistory = NoSave

\* saveFile(fileHandle, content) is called
SaveFileCall(c) ==
  /\ fsPc \in {"idle", "done"}
  /\ fsPc' = Awaits(fsRevision)[1]
  /\ fsNew' = c
  /\ fsOld' = 0
  /\ fsResult' = "none"
  /\ bakStream' = NoStream
  /\ fileStream' = NoStream
  /\ fsHistory' = [started |-> TRUE, previous |-> fileContent,
                   backupFailed |-> FALSE, writeBegun |-> FALSE,
                   backedUpFirst |-> FALSE]
  /\ UNCHANGED <<fsRevision, fileContent, bakFile>>
  /\ UNCHANGED nonFsVars

\* the effect of the await at fsPc when it succeeds
AwaitEffect ==
  /\ fsOld' = IF fsPc = "getFile" THEN fileContent ELSE fsOld
  /\ bakFile' = CASE fsPc = "bakHandle" /\ ~bakFile.exists
                        -> [exists |-> TRUE, content |-> 0]
                   [] fsPc = "bakClose"
                        -> [exists |-> TRUE, content |-> bakStream.data]
                   [] OTHER -> bakFile
  /\ bakStream' = CASE fsPc = "bakCreateWritable" -> [open |-> TRUE, data |-> 0]
                     [] fsPc = "bakWrite" -> [open |-> TRUE, data |-> fsOld]
                     [] fsPc = "bakClose" -> NoStream
                     [] OTHER -> bakStream
  /\ fileStream' = CASE fsPc = "createWritable" -> [open |-> TRUE, data |-> 0]
                      [] fsPc = "write" -> [open |-> TRUE, data |-> fsNew]
                      [] fsPc = "close" -> NoStream
                      [] OTHER -> fileStream
  /\ fileContent' = IF fsPc = "close" THEN fileStream.data ELSE fileContent
  /\ fsHistory' = IF fsPc = "write" /\ ~fsHistory.writeBegun
                     THEN [fsHistory EXCEPT
                             !.writeBegun = TRUE,
                             !.backedUpFirst =
                                /\ bakFile = [exists |-> TRUE,
                                              content |-> fsHistory.previous]
                                /\ ~bakStream.open]
                     ELSE fsHistory

\* the await at fsPc resolves
AwaitResolves ==
  /\ fsPc \notin {"idle", "done"}
  /\ AwaitEffect
  /\ fsPc' = AfterAwait(fsRevision, fsPc)
  /\ fsResult' = IF fsPc' = "done" THEN "resolved" ELSE fsResult
  /\ UNCHANGED <<fsRevision, fsNew>>
  /\ UNCHANGED nonFsVars

\* the await at fsPc rejects: "utils" warns and goes on to the write when
\* it is inside the backup's try, every other await rejects saveFile
AwaitRejects ==
  /\ fsPc \notin {"idle", "done"}
  /\ fsHistory' = [fsHistory EXCEPT
                     !.backupFailed = @ \/ fsPc \in BackupAwaits]
  /\ IF fsRevision = "utils" /\ fsPc \in WarnOnly
       THEN /\ fsPc' = "createWritable"
            /\ UNCHANGED fsResult
       ELSE /\ fsPc' = "done"
            /\ fsResult' = "rejected"
  /\ UNCHANGED <<fsRevision, fileContent, bakFile, bakStream, fileStream,
                 fsOld, fsNew>>
  /\ UNCHANGED nonFsVars

NextFs ==
  \/ \E c \in FileValues : SaveFileCall(c)
  \/ AwaitResolves
  \/ AwaitRejects

SpecFs == InitFs /\ [][NextFs]_vars

(***************************************************************************)
(* Properties of SpecRender                                                *)
(***************************************************************************)
Gens == 1..Len(effects)

\* C1: a render pass that reaches its commit step after the content prop has
\* changed (a later effect has run) leaves the preview DOM and
\* lastRenderedHtml untouched.
C1_StaleRenderNeverCommits ==
  [][\A g \in Gens :
       (effects[g].phase = "rendering" /\ effects'[g].phase = "done"
          /\ g # Len(effects))
       => (wrapperHtml' = wrapperHtml
             /\ lastRenderedHtmlRef' = lastRenderedHtmlRef)]_vars

\* a superseded pass ran to completion with output that differs from the
\* committed HTML, and was discarded
C1_Witness ==
  \E g \in Gens :
    /\ effects[g].phase = "done"
    /\ effects[g].superseded
    /\ effects[g].differed
    /\ ~effects[g].wrote
    /\ Len(effects[g].nodes) > 0

AllTexts == {TextA, TextAPad, TextB, TextBad}

\* out is what a pass may produce for a mermaid node with this text
RenderingOf(text, out) ==
  IF CacheKey(text) \in FailingKeys
    THEN out = ErrorPlaceholder(text)
    ELSE \E t \in AllTexts : \E g \in 1..MaxGen : \E i \in 1..2 :
           /\ CacheKey(t) = CacheKey(text)
           /\ out = Container(Svg(RenderId(g, i), t))

\* the preview shows the render of content value c
Shows(c) ==
  /\ wrapperHtml.prose = c.prose
  /\ Len(wrapperHtml.nodes) = Len(c.mermaid)
  /\ \A i \in 1..Len(c.mermaid) :
       RenderingOf(TextContent(c.mermaid[i]), wrapperHtml.nodes[i])

\* no timer is pending and no pass is in flight
Quiescent ==
  /\ timers = {}
  /\ \A g \in Gens : effects[g].phase # "rendering"

\* C2: once all timers and sub-renders have finished, the preview shows the
\* render of the latest content value, whatever the order of completion.
C2_MonotonicCommit == Quiescent => Shows(content)

\* an older generation completed after a newer one had committed
C2_Witness ==
  /\ Quiescent
  /\ \E g1 \in Gens : \E g2 \in Gens :
       /\ g1 < g2
       /\ g2 = Len(effects)
       /\ effects[g1].phase = "done" /\ effects[g1].afterLater
       /\ effects[g1].differed
       /\ effects[g2].phase = "done" /\ effects[g2].wrote
       /\ wrapperHtml = effects[g2].html

\* C3: over a burst of small mutations at most the timer of the last one is
\* pending; a debounced render is issued only for the value that is current,
\* after the full quiet period; and once no timer is pending the last value
\* has been rendered.
C3_DebounceCoalesces ==
  /\ Cardinality(timers) <= 1
  /\ \A t \in timers : t.id = Len(effects)
  /\ \A g \in Gens :
       (effects[g].via = "debounce" /\ effects[g].phase # "armed")
       => (effects[g].startGen = g /\ effects[g].quiet = DebounceTicks)
  /\ (timers = {}) => (effects[Len(effects)].phase # "armed")

\* a debounced mutation was superseded before its timer fired and the
\* following debounced mutation has been rendered
C3_Witness ==
  \E g \in Gens :
    /\ g > 1
    /\ effects[g - 1].via = "debounce" /\ effects[g - 1].phase = "armed"
    /\ effects[g].via = "debounce" /\ effects[g].phase = "done"
    /\ effects[g].wrote

\* C4 as claimed: a diagram text present in two generations is rasterized at
\* most once across both, for every interleaving.
C4_AtMostOnceAcrossGenerations ==
  \A g1 \in Gens : \A g2 \in Gens :
    g1 < g2 =>
      \A i \in 1..Len(effects[g1].nodes) : \A j \in 1..Len(effects[g2].nodes) :
        CacheKey(effects[g1].nodes[i].text) = CacheKey(effects[g2].nodes[j].text)
        => ~(effects[g1].nodes[i].invoked /\ effects[g2].nodes[j].invoked)

\* C4 amended: a pass that starts after a rasterization of the same trimmed
\* text has succeeded does not invoke the rasterizer for it.
C4_NoCallAfterSuccess ==
  \A g \in Gens : \A i \in 1..Len(effects[g].nodes) :
    ~(effects[g].nodes[i].invoked /\ effects[g].nodes[i].succAtStart)

\* a later generation was served from the cache
C4_Witness ==
  \E g \in Gens : \E i \in 1..Len(effects[g].nodes) :
    /\ g > 1
    /\ effects[g].nodes[i].st = "hit"
    /\ effects[g].nodes[i].succAtStart
    /\ effects[g].phase = "done"

\* the placeholder the specification asks for: it carries the source text
\* of the diagram block
PlaceholderWith(source) == <<"mermaid-error", source>>

\* C13 as claimed: a pass in which the rasterizer throws for a diagram node
\* completes and, unless superseded, commits; the failed node is an error
\* placeholder containing the node's original source text and every other
\* node is rendered as without the failure.
C13_RenderFailureIsolation ==
  \A g \in Gens :
    LET e == effects[g] IN
    (e.phase = "done" /\ \E i \in 1..Len(e.nodes) : e.nodes[i].st = "err")
    => /\ (e.isActive /\ e.differed) => e.wrote
       /\ \A i \in 1..Len(e.nodes) :
            IF e.nodes[i].st = "err"
              THEN e.html.nodes[i] = PlaceholderWith(e.content.mermaid[i])
              ELSE RenderingOf(TextContent(e.content.mermaid[i]), e.html.nodes[i])

(***************************************************************************)
(* Properties of SpecLocate                                                *)
(***************************************************************************)
\* C5: every highlight decoration is gone from the editor no later than
\* 1.5 s (HighlightTicks) after it was applied, whatever else is selected or
\* highlighted in the meantime.
C5_HighlightGoneWithinPeriod ==
  \A d \in decorations : d.age <= HighlightTicks

\* a second highlight replaced the first, and the first highlight's timer
\* has removed the second while the second's own timer is still pending
C5_Witness ==
  /\ hlCount = 2
  /\ decorations = {}
  /\ \E t \in locTimers : t.kind = "clear" /\ t.id = 2

\* number of places where text occurs in the source, letter case ignored
Occurrences(lines, text) ==
  Cardinality({p \in (1..Len(lines)) \X (1..MaxText) :
                 MatchAt(lines[p[1]], text, p[2])})

RECURSIVE Collapse(_)
Collapse(s) ==
  IF s = <<>> THEN <<>>
  ELSE IF Head(s) \in WhiteSpace
         THEN IF Tail(s) # <<>> /\ Head(Tail(s)) \in WhiteSpace
                THEN Collapse(Tail(s))
                ELSE <<" ">> \o Collapse(Tail(s))
         ELSE <<Head(s)>> \o Collapse(Tail(s))

\* whitespace normalization
Normalize(s) == Trim(Collapse(s))

RangeText(lines, m) == SubSeq(lines[m.line], m.startColumn, m.endColumn - 1)

\* C6: when the selected text occurs exactly once in the source, the locator
\* selects a source range whose text, whitespace-normalized, equals the
\* selected text.
C6_LocatorRoundTrip ==
  (located.called /\ Occurrences(SourceLines(doc), located.text) = 1)
  => /\ located.match # NoMatch
     /\ selection = located.match
     /\ Normalize(RangeText(SourceLines(doc), located.match))
          = Normalize(located.text)

\* block index of the nearest heading at or before block b (0 if none)
RECURSIVE HeadingBlock(_, _)
HeadingBlock(d, b) ==
  IF b = 0 THEN 0 ELSE IF d[b].kind = "h" THEN b ELSE HeadingBlock(d, b - 1)

\* source lines of the section opened by heading block h
Section(d, h) ==
  LET later == {k \in (h + 1)..Len(d) : d[k].kind = "h"}
      stop  == IF later = {} THEN Len(d) + 1
               ELSE CHOOSE k \in later : \A j \in later : k <= j
  IN (2 * h - 1)..(2 * stop - 2)

\* C7: a selection made under rendered heading H resolves to an occurrence
\* inside H's source section, never to one under another heading.
C7_HeadingScopedResolution ==
  (located.called /\ HeadingBlock(doc, located.block) # 0
     /\ located.match # NoMatch)
  => located.match.line \in Section(doc, HeadingBlock(doc, located.block))

\* C15: a call of the locator for a text that occurs nowhere in the source
\* and for which no search step finds a match changes nothing: viewport,
\* selection, decorations, highlightDecorations, isProgrammaticScroll and
\* the armed timers are as before.
C15_SilentNoOpOnMiss ==
  [][(located' # located /\ located'.match = NoMatch
        /\ Occurrences(SourceLines(doc), located'.text) = 0)
     => UNCHANGED <<doc, visibleRanges, selection, decorations,
                    highlightDecorations, locTimers, isProgrammaticScroll,
                    hlCount>>]_vars

\* a text absent from the source was selected while an earlier highlight
\* was still shown, and the highlight and its timers are still there
C15_Witness ==
  /\ located.called /\ located.match = NoMatch
  /\ Occurrences(SourceLines(doc), located.text) = 0
  /\ decorations # {}
  /\ \E t \in locTimers : t.kind = "clear"

\* C20 as claimed: the most recent highlight stays in the editor until its
\* own 1.5 s timer fires; the timer of an earlier highlight does not remove
\* it.
C20_HighlightOwnsTimer ==
  \A t \in locTimers :
    (t.kind = "clear" /\ t.id = hlCount /\ t.left > 0)
    => \E d \in decorations : d.id = t.id

(***************************************************************************)
(* Properties of SpecScroll                                                *)
(***************************************************************************)
\* C8: after a preview scroll event with scrollHeight > clientHeight the
\* editor's scrollTop is (scrollTop / (scrollHeight - clientHeight)) *
\* (editorScrollHeight - editorViewportHeight); 250 of 500 gives 400 for an
\* editor range of 800 and 250 for an editor range of 500.
C8_PreviewToEditorMapping ==
  synced =>
    /\ ScrollHeight(domHeight) > PreviewClientHeight
    /\ editorScrollTop.num * (ScrollHeight(domHeight) - PreviewClientHeight)
         = previewScrollTop * (editorGeom.scrollHeight - editorGeom.height)
           * editorScrollTop.den
    /\ (previewScrollTop = 250 /\ PreviewRange(domHeight) = 500
          /\ EditorRange(editorGeom) = 800)
       => RatEq(editorScrollTop, [num |-> 400, den |-> 1])
    /\ (previewScrollTop = 250 /\ PreviewRange(domHeight) = 500
          /\ EditorRange(editorGeom) = 500)
       => RatEq(editorScrollTop, [num |-> 250, den |-> 1])

\* the scenario of the specification: 250 of 500, editor range 800
C8_Witness ==
  /\ synced
  /\ previewScrollTop = 250
  /\ PreviewRange(domHeight) = 500
  /\ EditorRange(editorGeom) = 800
  /\ RatEq(editorScrollTop, [num |-> 400, den |-> 1])

\* C9: for fixed pane geometry the editor offset computed by
\* handlePreviewScroll does not decrease when the preview offset does not
\* decrease, and lies within [0, editorScrollHeight - editorViewportHeight].
C9_MappingMonotoneAndBounded ==
  /\ synced =>
       /\ RatLeq(Zero, editorScrollTop)
       /\ RatLeq(editorScrollTop, [num |-> EditorRange(editorGeom), den |-> 1])
  /\ (synced /\ prevSync.valid) =>
       /\ prevSync.scrollTop <= previewScrollTop
            => RatLeq(prevSync.editorScrollTop, editorScrollTop)
       /\ prevSync.scrollTop >= previewScrollTop
            => RatLeq(editorScrollTop, prevSync.editorScrollTop)

\* two successive scroll events, the second further down, moved the editor
\* further down
C9_Witness ==
  /\ synced /\ prevSync.valid
  /\ prevSync.scrollTop < previewScrollTop
  /\ ~RatLeq(editorScrollTop, prevSync.editorScrollTop)
  /\ previewScrollTop < PreviewRange(domHeight)

\* C10 as claimed: once the editor is mounted and the effect has set the
\* option, manual wheel scrolling of the editor is enabled exactly when the
\* preview content does not exceed its viewport.
C10_WheelIffNotScrollable ==
  (editorRef /\ optionsSet) => (handleMouseWheel <=> ~Scrollable(domHeight))

\* C11 as claimed: when a commit of the preview takes its content across the
\* viewport height (from not scrollable to scrollable or back), the editor's
\* manual-scroll setting after that commit is the one for the content just
\* committed.
C11_ScrollabilityFollowsCommit ==
  [][(editorRef /\ optionsSet /\ renderInFlight /\ ~renderInFlight'
        /\ Scrollable(domHeight') # Scrollable(domHeight))
     => (handleMouseWheel' <=> ~Scrollable(domHeight'))]_vars

(***************************************************************************)
(* Properties of SpecBidi                                                  *)
(***************************************************************************)
\* C12 as claimed: when the echo scroll event of a programmatic write is
\* delivered within the guard window, isScrolling still names the pane that
\* drove the write, so the echo is not handled as a user scroll.
C12_LockAbsorbsEcho ==
  (echoSeen.valid /\ echoSeen.age < GuardTicks)
  => echoSeen.lock = echoSeen.driver

(***************************************************************************)
(* Properties of SpecKeep                                                  *)
(***************************************************************************)
\* C14 as claimed: after every DOM replacement the preview's scroll offset
\* equals its actual offset just before the replacement (where the new
\* content can be scrolled that far), also when the offset was changed
\* shortly before and its scroll event has not been delivered yet.
C14_ScrollPreservedAcrossCommit ==
  (lastCommit.valid /\ lastCommit.before <= lastCommit.range)
  => lastCommit.after = lastCommit.before

(***************************************************************************)
(* Properties of SpecResync                                                *)
(***************************************************************************)
\* C16 as claimed: when the content prop differs from lastValueRef while the
\* editor has text focus, the effect does not replace the buffer and leaves
\* the cursor position and lastValueRef as they were; the buffer is
\* replaced only when the editor does not have focus.
C16_FocusGuardOnResync ==
  (lastResync.valid /\ lastResync.focused)
  => /\ ~lastResync.replaced
     /\ lastResync.posAfter = lastResync.posBefore
     /\ lastResync.refAfter = lastResync.refBefore

(***************************************************************************)
(* Properties of SpecSave                                                  *)
(***************************************************************************)
\* the content has an odd number of lines that begin with ```
OddFenceLines(d) == CodeBlockCount(d) % 2 = 1

\* the fenced blocks of d as Markdown reads them: a fence line opens a block
\* and the next bare fence line closes it (end of document if there is none)
RECURSIVE FencedBlocks(_, _)
FencedBlocks(d, from) ==
  LET opens == {i \in from..Len(d) : FenceLine(d[i])}
  IN IF opens = {} THEN <<>>
     ELSE LET i == CHOOSE k \in opens : \A m \in opens : k <= m
              closes == {k \in (i + 1)..Len(d) : d[k] = Fence}
              j == IF closes = {} THEN Len(d) + 1
                   ELSE CHOOSE k \in closes : \A m \in closes : k <= m
          IN <<[first |-> i, last |-> j]>> \o FencedBlocks(d, j + 1)

\* the content has a mermaid fenced block whose body is only white space
BlankMermaidBlock(d) ==
  \E n \in 1..Len(FencedBlocks(d, 1)) :
    LET b == FencedBlocks(d, 1)[n]
    IN d[b.first] = MermaidFence /\ EmptyBlock(d, b)

C19_CommandSavesCurrentContent ==
  (lastPress.valid /\ lastPress.via = "command")
  => lastPress.content = lastPress.current

(***************************************************************************)
(* Properties of SpecFs                                                    *)
(***************************************************************************)
\* C18 as claimed: in every save through a file-system handle the .bak
\* file holds the file's previous content and is closed before anything of
\* the new content is written to the file; when creating or writing the
\* backup fails the file keeps its content and saveFile rejects.
C18_BackupPrecedesWrite ==
  fsHistory.started
  => /\ fsHistory.writeBegun => fsHistory.backedUpFirst
     /\ fsHistory.backupFailed
        => /\ ~fsHistory.writeBegun
           /\ fileContent = fsHistory.previous
           /\ fsPc = "done" => fsResult = "rejected"

(***************************************************************************)
(* Properties of SpecRender: the diagram cache and the debounce decision   *)
(***************************************************************************)
\* the nodes of effect g whose rasterizer call has stored its svg
Stored(g, k) ==
  \E i \in 1..Len(effects[g].nodes) :
    /\ effects[g].nodes[i].st = "ok"
    /\ Trim(effects[g].nodes[i].text) = k

\* C21 as claimed: every entry of the diagram cache was written by a pass
\* that was not discarded as stale (a pass still in flight counts as long
\* as it has not been superseded).
C21_CacheWrittenByCommittedPasses ==
  \A k \in DOMAIN mermaidCacheRef :
    \E g \in Gens : effects[g].isActive /\ Stored(g, k)

\* the render() call of effect g starts in this step
Starts(g) ==
  /\ g \in 1..Len(effects')
  /\ effects'[g].phase # "armed"
  /\ g \in Gens => effects[g].phase = "armed"

C23_CacheEntryLifecycle ==
  [][/\ \A k \in DOMAIN mermaidCacheRef' : k \in succeeded'
     /\ \A k \in DOMAIN mermaidCacheRef :
          /\ k \in DOMAIN mermaidCacheRef'
          /\ mermaidCacheRef'[k] = mermaidCacheRef[k]]_vars

SectionRange(d, h) ==
  LET later == {k \in (h + 1)..Len(d) :
                  d[k].kind = "h" /\ d[k].level <= d[h].level}
  IN [startLine |-> 2 * h - 1,
      endLine   |-> IF later = {} THEN 2 * Len(d) - 1
                    ELSE 2 * (CHOOSE k \in later : \A j \in later : k <= j) - 1]

\* C25 as claimed: with a heading found in the source, the candidate range
\* runs from that heading's line to the next heading of the same or a
\* higher level, or to the end of the document; a deeper sub-heading does
\* not end it.
C25_HeadingSubRange ==
  (located.called /\ HeadingBlock(doc, located.block) # 0)
  => located.hrange = SectionRange(doc, HeadingBlock(doc, located.block))

\* first occurrence of pat, as written, in lines r.startLine..r.endLine
FirstIn(lines, pat, r) == findMatches(lines, pat, r.startLine, r.endLine)

\* C26 as claimed: bestMatch is the first occurrence of the enclosing
\* sentence in the narrowed range; failing that the first occurrence of the
\* raw text in the narrowed range; failing that the occurrence of the raw
\* text in the whole document whose line is nearest to the centre of the
\* visible range, the earliest one on a tie.
C26_SearchFallThroughOrder ==
  located.called =>
    LET lines == SourceLines(doc)
        sm  == FirstIn(lines, located.sentence, located.range)
        tm  == FirstIn(lines, located.text, located.range)
        all == findMatches(lines, located.text, 1, Len(lines))
        nearest == {i \in 1..Len(all) :
                      \A j \in 1..Len(all) :
                        Abs(2 * all[i].line - (located.visible.startLineNumber
                                               + located.visible.endLineNumber))
                        <= Abs(2 * all[j].line - (located.visible.startLineNumber
                                                  + located.visible.endLineNumber))}
    IN located.match =
         IF sm # <<>> THEN sm[1]
         ELSE IF tm # <<>> THEN tm[1]
         ELSE IF all # <<>>
                THEN all[CHOOSE i \in nearest : \A j \in nearest : i <= j]
                ELSE NoMatch

\* C27: a line hint whose line (lineHint + 1) is inside the heading range
\* moves the start of the search to that line, any other leaves the range
\* as it is; a match of the searches in the range lies within the range.
C27_LineHintNarrowing ==
  located.called =>
    LET line == located.lineHint + 1
        inside == /\ located.lineHint # -1
                  /\ located.hrange.startLine <= line
                  /\ line <= located.hrange.endLine
    IN /\ located.range.endLine = located.hrange.endLine
       /\ located.range.startLine =
            IF inside THEN line ELSE located.hrange.startLine
       /\ located.stage \in {"sentence", "text"}
          => /\ located.range.startLine <= located.match.line
             /\ located.match.line <= located.range.endLine

\* the hint moved the start of the search past the heading line and the
\* text was found on the hinted line
C27_Witness ==
  /\ located.called
  /\ located.lineHint + 1 > located.hrange.startLine
  /\ located.range.startLine = located.lineHint + 1
  /\ located.stage = "text"
  /\ located.match.line = located.lineHint + 1
  /\ selection = located.match

\* C28: a click with no selection takes the maximal run of characters that
\* are not white space around the click offset in the clicked text node; a
\* word of at most one character starts no search and changes nothing, any
\* other word is what the locator is called with.
C28_ClickWordExtraction ==
  [][(clicked'.valid /\ clicked' # clicked) =>
       LET t == doc[clicked'.block].text
           o == clicked'.offset
           w == clicked'.word
       IN /\ \E i \in 0..o : \E j \in o..Len(t) :
               /\ w = SubSeq(t, i + 1, j)
               /\ \A k \in (i + 1)..j : t[k] \notin WhiteSpace
               /\ i = 0 \/ t[i] \in WhiteSpace
               /\ j = Len(t) \/ t[j + 1] \in WhiteSpace
          /\ IF Len(w) <= 1
               THEN UNCHANGED <<doc, visibleRanges, selection, decorations,
                                highlightDecorations, locTimers,
                                isProgrammaticScroll, hlCount, located>>
               ELSE /\ located' # located
                    /\ located'.text = w
                    /\ located'.block = clicked'.block]_vars

\* a click inside a word of a sentence of several words selected that word
\* in the source
C28_Witness ==
  /\ clicked.valid
  /\ Len(clicked.word) > 1
  /\ Len(clicked.word) < Len(doc[clicked.block].text)
  /\ located.called /\ located.text = clicked.word
  /\ located.stage = "text"
  /\ selection = located.match

\* ------------------------------------------------------------------------
\* The gutter click: scrollToPreviewLine (editor-utils.ts) called by the
\* editor's onMouseDown handler
\* ------------------------------------------------------------------------

\* the most flash timers that are pending when the gutter is clicked
MaxFlashes == 1

\* an element of the preview that carries data-line: its 0-based start
\* line, its data-line-end (-1 when the attribute is absent), its position
\* and height in the content and the anchored elements that contain it
Anchor(line, lineEnd, offsetTop, height, inside) ==
  [line |-> line, lineEnd |-> lineEnd, offsetTop |-> offsetTop,
   height |-> height, inside |-> inside, blank |-> FALSE]

\* an element of raw HTML that carries data-line without a source span: the
\* attribute is the empty string (blank) or "-1"
RawElement(blank, offsetTop, height) ==
  [line |-> -1, lineEnd |-> -1, offsetTop |-> offsetTop, height |-> height,
   inside |-> {}, blank |-> blank]

\* a heading, a paragraph, a mermaid diagram of six lines and a fenced code
\* block of three
ProsePreview ==
  [nodes |-> <<Anchor(0, 1, 0, 40, {}), Anchor(2, 3, 40, 60, {}),
               Anchor(4, 10, 100, 120, {}), Anchor(11, 14, 220, 100, {})>>,
   paneTop |-> 40, clientHeight |-> 80, scrollHeight |-> 320]

\* a table that starts on the second line: its wrapper, its header row and
\* two body rows, then a paragraph; the content fits the pane
TablePreview ==
  [nodes |-> <<Anchor(1, 5, 20, 100, {}), Anchor(1, 2, 20, 30, {1}),
               Anchor(3, 4, 50, 30, {1}), Anchor(4, 5, 80, 30, {1}),
               Anchor(6, 7, 130, 40, {})>>,
   paneTop |-> 40, clientHeight |-> 200, scrollHeight |-> 170]

\* a list item of three lines and one of a single line, each holding its
\* paragraph
ListPreview ==
  [nodes |-> <<Anchor(0, 3, 0, 90, {}), Anchor(0, 3, 0, 90, {1}),
               Anchor(3, 4, 90, 30, {}), Anchor(3, 4, 90, 30, {3})>>,
   paneTop |-> 40, clientHeight |-> 100, scrollHeight |-> 120]

\* a preview without any element that carries data-line
BarePreview ==
  [nodes |-> <<>>, paneTop |-> 40, clientHeight |-> 200, scrollHeight |-> 300]

\* raw HTML whose data-line attribute is empty, then two paragraphs
BlankAttrPreview ==
  [nodes |-> <<RawElement(TRUE, 30, 20), Anchor(2, 3, 80, 40, {}),
               Anchor(10, 11, 200, 40, {})>>,
   paneTop |-> 40, clientHeight |-> 200, scrollHeight |-> 450]

\* raw HTML whose data-line attribute is "-1", then two paragraphs
MinusOnePreview ==
  [nodes |-> <<RawElement(FALSE, 30, 20), Anchor(3, 4, 80, 40, {}),
               Anchor(10, 11, 200, 40, {})>>,
   paneTop |-> 40, clientHeight |-> 200, scrollHeight |-> 450]

\* a preview whose only anchored element is more than 50 lines down
FarPreview ==
  [nodes |-> <<Anchor(70, 71, 400, 40, {})>>,
   paneTop |-> 40, clientHeight |-> 200, scrollHeight |-> 450]

Previews ==
  {ProsePreview, TablePreview, ListPreview, BarePreview, BlankAttrPreview}

\* the previews the editor's scroll handler looks elements up in
SyncPreviews == {BlankAttrPreview, MinusOnePreview, FarPreview}

\* the line numbers of the gutter and the clientY of the mouse event
GutterLines == 1..15

ClickYs == {60, 150}

RatOfInt(n) == [num |-> n, den |-> 1]

RECURSIVE GCD(_, _)
GCD(a, b) == IF b = 0 THEN a ELSE GCD(b, a % b)

\* a fraction in lowest terms with a positive denominator
Reduce(q) ==
  LET g == GCD(Abs(q.num), q.den)
  IN [num |-> q.num \div g, den |-> q.den \div g]

RatAdd(p, q) ==
  Reduce([num |-> p.num * q.den + q.num * p.den, den |-> p.den * q.den])

RatSub(p, q) == RatAdd(p, [num |-> -q.num, den |-> q.den])

\* Math.max(0, finalScrollTop)
RatMax0(q) == IF q.num < 0 THEN Zero ELSE q

\* scrollHeight - clientHeight, the largest scrollTop of the pane
GutterRange(pane) == Max(0, pane.scrollHeight - pane.clientHeight)

\* el.getBoundingClientRect(): relative to the viewport, so the top moves
\* with the pane's scrollTop
Rect(pane, i, scrollTop) ==
  [top |-> RatSub(RatOfInt(pane.paneTop + pane.nodes[i].offsetTop), scrollTop),
   height |-> pane.nodes[i].height]

\* previewElement.scrollTo({ top }): the pane ends at the requested offset
\* clipped to what it can scroll
ScrollTo(pane, top) ==
  IF RatLeq(top, Zero) THEN Zero
  ELSE IF RatLeq(RatOfInt(GutterRange(pane)), top)
       THEN RatOfInt(GutterRange(pane))
       ELSE top

\* variant: the editor's line number is used as it is
TargetLineSame(lineNumber) == lineNumber

\* targetLine = lineNumber - 1
TargetLine(lineNumber) == lineNumber - 1

\* the loop over querySelectorAll('[data-line]'): an element on the target
\* line replaces the best match, an element above it replaces the best
\* match when it is strictly closer
RECURSIVE ClosestAnchor(_, _, _, _, _)
ClosestAnchor(nodes, targetLine, i, best, minDiff) ==
  IF i > Len(nodes) THEN best
  ELSE LET line == ParseDataLine(nodes[i], -1)
       IN IF line = -1
          THEN ClosestAnchor(nodes, targetLine, i + 1, best, minDiff)
          ELSE IF line = targetLine
          THEN ClosestAnchor(nodes, targetLine, i + 1, i, 0)
          ELSE IF /\ line < targetLine
                  /\ (minDiff = Infinity \/ targetLine - line < minDiff)
          THEN ClosestAnchor(nodes, targetLine, i + 1, i, targetLine - line)
          ELSE ClosestAnchor(nodes, targetLine, i + 1, best, minDiff)

\* lineEnd > lineStart && targetLine > lineStart && targetLine < lineEnd
InsideBlock(lineStart, lineEnd, targetLine) ==
  lineEnd > lineStart /\ targetLine > lineStart /\ targetLine < lineEnd

\* target.querySelectorAll(`[data-line="${targetLine}"]`)
SubMatch(nodes, target, targetLine) ==
  {j \in 1..Len(nodes) : target \in nodes[j].inside /\ nodes[j].line = targetLine}

\* variant: the lines of the block are counted with its last line
InternalOffsetInclusive(blockHeight, currentLineOffset, totalLines) ==
  Reduce([num |-> blockHeight * currentLineOffset, den |-> totalLines + 1])

\* percentage = currentLineOffset / totalLines;
\* internalOffset = blockHeight * percentage
InternalOffset(blockHeight, currentLineOffset, totalLines) ==
  Reduce([num |-> blockHeight * currentLineOffset, den |-> totalLines])

\* steps 3 and 4: the element to flash and scrollOffset, the distance
\* between the chosen position and the click
ScrollPlan(pane, scrollTop, bestMatch, targetLine, clickY) ==
  LET nodes == pane.nodes
      lineStart == nodes[bestMatch].line
      lineEnd == nodes[bestMatch].lineEnd
      targetRect == Rect(pane, bestMatch, scrollTop)
      subMatch == SubMatch(nodes, bestMatch, targetLine)
      first == CHOOSE j \in subMatch : \A k \in subMatch : j <= k
  IN IF InsideBlock(lineStart, lineEnd, targetLine)
     THEN IF subMatch # {}
          THEN [target |-> first, interpolated |-> FALSE,
                scrollOffset |-> RatSub(Rect(pane, first, scrollTop).top,
                                        RatOfInt(clickY))]
          ELSE [target |-> bestMatch, interpolated |-> TRUE,
                scrollOffset |->
                  RatSub(RatAdd(targetRect.top,
                                InternalOffset(targetRect.height,
                                               targetLine - lineStart,
                                               lineEnd - lineStart)),
                         RatOfInt(clickY))]
     ELSE [target |-> bestMatch, interpolated |-> FALSE,
           scrollOffset |-> RatSub(targetRect.top, RatOfInt(clickY))]

\* the preview has rendered one of the documents and nothing was clicked
InitGutter ==
  /\ RenderIdle
  /\ LocateIdle
  /\ ScrollIdle
  /\ BidiIdle
  /\ KeepIdle
  /\ ResyncIdle
  /\ SaveIdle
  /\ FsIdle
  /\ AppIdle
  /\ ZoomIdle
  /\ previewNodes \in Previews
  /\ gutterScrollTop = Zero
  /\ backgroundColor = [i \in 1..Len(previewNodes.nodes) |-> ""]
  /\ flashTimers = <<>>
  /\ gutter = NoGutterClick

\* scrollToPreviewLine(lineNumber, clickY, previewElement)
scrollToPreviewLine(lineNumber, clickY) ==
  LET nodes == previewNodes.nodes
      targetLine == TargetLine(lineNumber)
      bestMatch == ClosestAnchor(nodes, targetLine, 1, 0, Infinity)
      plan == ScrollPlan(previewNodes, gutterScrollTop, bestMatch,
                         targetLine, clickY)
      finalScrollTop == RatAdd(gutterScrollTop, plan.scrollOffset)
      parity == IF gutter.valid THEN 1 - gutter.parity ELSE 0
  IN IF Len(nodes) = 0 \/ bestMatch = 0
     THEN /\ gutter' = [valid |-> TRUE, parity |-> parity,
                        lineNumber |-> lineNumber, clickY |-> clickY,
                        bestMatch |-> 0, target |-> 0, scrolled |-> FALSE,
                        interpolated |-> FALSE, top |-> Zero]
          /\ UNCHANGED <<previewNodes, gutterScrollTop, backgroundColor,
                         flashTimers>>
     ELSE /\ gutter' = [valid |-> TRUE, parity |-> parity,
                        lineNumber |-> lineNumber, clickY |-> clickY,
                        bestMatch |-> bestMatch, target |-> plan.target,
                        scrolled |-> TRUE,
                        interpolated |-> plan.interpolated,
                        top |-> RatMax0(finalScrollTop)]
          /\ gutterScrollTop' = ScrollTo(previewNodes, RatMax0(finalScrollTop))
          /\ backgroundColor' =
               [backgroundColor EXCEPT ![plan.target] = "flash"]
          /\ flashTimers' = Append(flashTimers,
               [node |-> plan.target,
                originalBg |-> backgroundColor[plan.target]])
          /\ UNCHANGED previewNodes

\* editor.onMouseDown on the line numbers or the glyph margin
GutterClick(lineNumber, clickY) ==
  /\ Len(flashTimers) < MaxFlashes
  /\ scrollToPreviewLine(lineNumber, clickY)
  /\ UNCHANGED nonGutterVars

\* the oldest timer of a flash fires (all timers wait the same second):
\* target.style.backgroundColor = originalBg
FlashTimerFire ==
  /\ flashTimers # <<>>
  /\ backgroundColor' =
       [backgroundColor EXCEPT ![Head(flashTimers).node] =
                                 Head(flashTimers).originalBg]
  /\ flashTimers' = Tail(flashTimers)
  /\ UNCHANGED <<previewNodes, gutterScrollTop, gutter>>
  /\ UNCHANGED nonGutterVars

\* the user scrolls the preview to its top or to its end
GutterPreviewScroll(top) ==
  /\ top \in {0, GutterRange(previewNodes)}
  /\ gutterScrollTop # RatOfInt(top)
  /\ gutterScrollTop' = RatOfInt(top)
  /\ UNCHANGED <<previewNodes, backgroundColor, flashTimers, gutter>>
  /\ UNCHANGED nonGutterVars

NextGutter ==
  \/ \E lineNumber \in GutterLines : \E clickY \in ClickYs :
       GutterClick(lineNumber, clickY)
  \/ FlashTimerFire
  \/ \E top \in {0, GutterRange(previewNodes)} : GutterPreviewScroll(top)

SpecGutter == InitGutter /\ [][NextGutter]_vars

\* the EditorPane of the bidirectional synchronisation over a preview with
\* anchored elements
InitSync ==
  /\ RenderIdle
  /\ LocateIdle
  /\ ScrollIdle
  /\ KeepIdle
  /\ ResyncIdle
  /\ SaveIdle
  /\ FsIdle
  /\ BidiIdle
  /\ AppIdle
  /\ ZoomIdle
  /\ previewNodes \in SyncPreviews
  /\ gutterScrollTop = Zero
  /\ backgroundColor = <<>>
  /\ flashTimers = <<>>
  /\ gutter = NoGutterClick

SpecSync == InitSync /\ [][NextBidi]_vars

\* the most flash timers that are pending when the gutter is clicked again
MaxPendingFlashes == 2

\* a click on the gutter while the flash of an earlier click may still be on
GutterClickAgain(lineNumber, clickY) ==
  /\ Len(flashTimers) < MaxPendingFlashes
  /\ scrollToPreviewLine(lineNumber, clickY)
  /\ UNCHANGED nonGutterVars

NextFlash ==
  \/ \E lineNumber \in GutterLines : \E clickY \in ClickYs :
       GutterClickAgain(lineNumber, clickY)
  \/ FlashTimerFire

SpecFlash == InitGutter /\ [][NextFlash]_vars

\* ------------------------------------------------------------------------
\* Properties of SpecGutter: the element a gutter click selects and the
\* position it is aligned at
\* ------------------------------------------------------------------------

\* the anchored elements that start on or above line t
AtOrAbove(t) ==
  {i \in 1..Len(previewNodes.nodes) :
     previewNodes.nodes[i].line >= 0 /\ previewNodes.nodes[i].line <= t}

\* the elements of AtOrAbove(t) with the greatest start line
Nearest(t) ==
  {n \in AtOrAbove(t) :
     \A m \in AtOrAbove(t) :
       previewNodes.nodes[m].line <= previewNodes.nodes[n].line}

\* max(0, scrollTop + p - y) for a position p of the viewport
Aligned(p, y) == RatMax0(RatSub(RatAdd(gutterScrollTop, p), RatOfInt(y)))

\* the top of element n in the viewport before the click
NodeTop(n) ==
  RatSub(RatOfInt(previewNodes.paneTop + previewNodes.nodes[n].offsetTop),
         gutterScrollTop)

\* line t lies strictly between the start and the end of element n
StrictlyInside(n, t) ==
  /\ previewNodes.nodes[n].line < t
  /\ t < previewNodes.nodes[n].lineEnd

\* a step that is a click on the gutter
IsGutterClick == gutter'.valid /\ gutter' # gutter

\* the click left the preview as it was
NoScrollNoFlash ==
  /\ ~gutter'.scrolled
  /\ gutterScrollTop' = gutterScrollTop
  /\ backgroundColor' = backgroundColor
  /\ flashTimers' = flashTimers

\* C29 as stated: a click on line L at pixel y selects an anchored element
\* whose start line is the greatest one that is <= L-1 and asks the preview
\* to scroll to max(0, scrollTop + nodeTop - y); when no anchored element
\* starts on or above L-1 nothing is scrolled and nothing is flashed
C29_Original ==
  [][IsGutterClick =>
       LET t == gutter'.lineNumber - 1
           n == gutter'.bestMatch
       IN IF AtOrAbove(t) = {}
          THEN NoScrollNoFlash
          ELSE /\ n \in Nearest(t)
               /\ gutter'.scrolled
               /\ RatEq(gutter'.top, Aligned(NodeTop(n), gutter'.clickY))
               /\ gutterScrollTop' = ScrollTo(previewNodes, gutter'.top)]_vars

\* C29 (gutter-click target selection and alignment), amended: a click on
\* line L at pixel y selects an anchored element whose start line is the
\* greatest one that is <= L-1; unless L-1 lies strictly inside the
\* element's source range it asks the preview to scroll to
\* max(0, scrollTop + nodeTop - y), and when L-1 does lie strictly inside
\* the range the requested offset aligns a position between the element's
\* top and its bottom; when no anchored element starts on or above L-1
\* nothing is scrolled and nothing is flashed
C29_GutterClickSelection ==
  [][IsGutterClick =>
       LET t == gutter'.lineNumber - 1
           y == gutter'.clickY
           n == gutter'.bestMatch
       IN IF AtOrAbove(t) = {}
          THEN NoScrollNoFlash
          ELSE /\ n \in Nearest(t)
               /\ gutter'.scrolled
               /\ IF StrictlyInside(n, t)
                  THEN /\ RatLeq(Aligned(NodeTop(n), y), gutter'.top)
                       /\ RatLeq(gutter'.top,
                                 Aligned(RatAdd(NodeTop(n),
                                   RatOfInt(previewNodes.nodes[n].height)), y))
                  ELSE RatEq(gutter'.top, Aligned(NodeTop(n), y))
               /\ gutterScrollTop' = ScrollTo(previewNodes, gutter'.top)
               /\ backgroundColor'[gutter'.target] = "flash"]_vars

\* a click below the start of a paragraph has selected it, the preview was
\* scrolled to the requested offset and the paragraph is flashed
C29_Witness ==
  /\ gutter.valid /\ gutter.scrolled
  /\ previewNodes.nodes[gutter.bestMatch].line < gutter.lineNumber - 1
  /\ ~StrictlyInside(gutter.bestMatch, gutter.lineNumber - 1)
  /\ gutter.top.num > 0
  /\ gutterScrollTop = gutter.top
  /\ backgroundColor[gutter.bestMatch] = "flash"

\* the offset added inside element n for line t, as a fraction
Interpolated(n, t) ==
  [num |-> previewNodes.nodes[n].height * (t - previewNodes.nodes[n].line),
   den |-> previewNodes.nodes[n].lineEnd - previewNodes.nodes[n].line]

\* element n has no descendant anchored exactly at line t
NoDescendantAt(n, t) ==
  \A j \in 1..Len(previewNodes.nodes) :
    ~(n \in previewNodes.nodes[j].inside /\ previewNodes.nodes[j].line = t)

\* C30 (interpolation inside a multi-line node): when the target line t
\* lies strictly between the start s and the end e of the selected element
\* and no descendant is anchored exactly at t, the aligned position is
\* nodeTop + height * (t - s) / (e - s), an offset strictly between 0 and
\* the height; when t is not strictly inside the range the aligned position
\* is nodeTop; and the offset never decreases as t grows
C30_Interpolation ==
  /\ [][IsGutterClick /\ gutter'.bestMatch # 0 =>
          LET t == gutter'.lineNumber - 1
              y == gutter'.clickY
              n == gutter'.bestMatch
              height == RatOfInt(previewNodes.nodes[n].height)
          IN IF StrictlyInside(n, t)
             THEN NoDescendantAt(n, t) =>
                    /\ gutter'.interpolated
                    /\ RatEq(gutter'.top,
                             Aligned(RatAdd(NodeTop(n), Interpolated(n, t)), y))
                    /\ ~RatLeq(Interpolated(n, t), Zero)
                    /\ ~RatLeq(height, Interpolated(n, t))
             ELSE /\ ~gutter'.interpolated
                  /\ RatEq(gutter'.top, Aligned(NodeTop(n), y))]_vars
  /\ [](\A n \in 1..Len(previewNodes.nodes) :
          \A t1, t2 \in 0..15 :
            StrictlyInside(n, t1) /\ StrictlyInside(n, t2) /\ t1 <= t2 =>
              RatLeq(InternalOffset(previewNodes.nodes[n].height,
                                    t1 - previewNodes.nodes[n].line,
                                    previewNodes.nodes[n].lineEnd
                                      - previewNodes.nodes[n].line),
                     InternalOffset(previewNodes.nodes[n].height,
                                    t2 - previewNodes.nodes[n].line,
                                    previewNodes.nodes[n].lineEnd
                                      - previewNodes.nodes[n].line)))

\* a click on the second line of a code block of three lines and height
\* 100 has scrolled the preview to an offset with a third of a pixel
C30_Witness ==
  /\ gutter.valid /\ gutter.interpolated
  /\ StrictlyInside(gutter.bestMatch, gutter.lineNumber - 1)
  /\ gutter.top.den = 3
  /\ gutterScrollTop = gutter.top

\* ------------------------------------------------------------------------
\* Properties of SpecFlash: the flash of the element a gutter click locates
\* ------------------------------------------------------------------------

\* C31 (the locate flash is transient): once every flash timer has fired,
\* each element has the background colour it had before it was first
\* flashed, also when an element was flashed again before its earlier flash
\* ended
C31_FlashIsTransient ==
  flashTimers = <<>> =>
    \A i \in 1..Len(previewNodes.nodes) : backgroundColor[i] = ""

\* ------------------------------------------------------------------------
\* Properties of SpecSync: the element the editor's scroll handler scrolls
\* the preview to
\* ------------------------------------------------------------------------

\* the elements with a source span
AnchoredNodes ==
  {i \in 1..Len(previewNodes.nodes) :
     ~previewNodes.nodes[i].blank /\ previewNodes.nodes[i].line >= 0}

\* the offset that shows element i 10 pixels below the top of the preview
ShownAt(i) ==
  Max(0, Min(previewNodes.nodes[i].offsetTop - 10,
             GutterRange(previewNodes)))

\* C32 (unanchored nodes are skipped by every lookup), for the lookup of
\* the editor-scroll synchronisation: when the editor's scroll handler moves
\* the preview, it moves it to an element that has a source span or, when no
\* such element is within 50 lines, to the editor's fraction of the scroll
\* range; an element whose data-line is empty or -1 is never the target
C32_UnanchoredNeverSyncTarget ==
  [][isScrolling' = "editor" /\ scrollEvents' = scrollEvents + 1 =>
       \/ \E i \in AnchoredNodes : biPreviewTop' = ShownAt(i)
       \/ biPreviewTop' = biEditorTop']_vars

\* ------------------------------------------------------------------------
\* The App component: the content and previewContent states, the debounced
\* preview update, the file-load effect and handleExitEdit.  Time advances
\* in ticks of 100 ms; texts are numbers, 0 is the empty string and file f
\* holds the text f.
\* ------------------------------------------------------------------------

\* the files of the opened directory
AppFiles == {1, 2}

\* the texts the user types
TypedTexts == {3}

\* debounce(..., 200)
PreviewDebounceTicks == 2

\* setTimeout(..., 300) of handleExitEdit
ExitEditTicks == 3

\* readFile(file) of a file that is not changed on disk
FileText(file) == file

InitApp ==
  /\ RenderIdle
  /\ LocateIdle
  /\ ScrollIdle
  /\ BidiIdle
  /\ KeepIdle
  /\ ResyncIdle
  /\ SaveIdle
  /\ FsIdle
  /\ GutterIdle
  /\ ZoomIdle
  /\ currentFile = 0
  /\ appText = 0
  /\ appPreviewContent = 0
  /\ isEditing = FALSE
  /\ debounced = [armed |-> FALSE]
  /\ fileReads = {}
  /\ exitTimers = {}

\* Sidebar onFileSelect: setCurrentFile(node); setIsEditing(false); the
\* effect of [currentFile] starts readFile(currentFile)
SelectFile(file) ==
  /\ file # currentFile
  /\ currentFile' = file
  /\ isEditing' = FALSE
  /\ fileReads' = fileReads \cup {file}
  /\ UNCHANGED <<appText, appPreviewContent, debounced, exitTimers>>
  /\ UNCHANGED nonAppVars

\* Header onBack: setCurrentFile(null); the effect empties both states
BackToList ==
  /\ currentFile # 0
  /\ ~isEditing
  /\ currentFile' = 0
  /\ appText' = 0
  /\ appPreviewContent' = 0
  /\ UNCHANGED <<isEditing, debounced, fileReads, exitTimers>>
  /\ UNCHANGED nonAppVars

\* a readFile promise settles: .then sets both states to the text, .catch
\* shows a toast
ReadSettles(file, ok) ==
  /\ file \in fileReads
  /\ fileReads' = fileReads \ {file}
  /\ IF ok
       THEN /\ appText' = FileText(file)
            /\ appPreviewContent' = FileText(file)
       ELSE UNCHANGED <<appText, appPreviewContent>>
  /\ UNCHANGED <<currentFile, isEditing, debounced, exitTimers>>
  /\ UNCHANGED nonAppVars

\* Header onEdit or Ctrl/Cmd + E
ToggleEditing ==
  /\ currentFile # 0
  /\ isEditing' = ~isEditing
  /\ UNCHANGED <<currentFile, appText, appPreviewContent, debounced, fileReads,
                 exitTimers>>
  /\ UNCHANGED nonAppVars

\* handleEditorChange(value): setContent(value); debouncedUpdatePreview(value)
HandleEditorChange(value) ==
  /\ currentFile # 0
  /\ isEditing
  /\ value # appText
  /\ appText' = value
  /\ debounced' = [armed |-> TRUE, val |-> value, left |-> PreviewDebounceTicks]
  /\ UNCHANGED <<currentFile, appPreviewContent, isEditing, fileReads, exitTimers>>
  /\ UNCHANGED nonAppVars

\* the debounced call runs: setPreviewContent(val)
DebounceFire ==
  /\ debounced.armed
  /\ debounced.left = 0
  /\ appPreviewContent' = debounced.val
  /\ debounced' = [armed |-> FALSE]
  /\ UNCHANGED <<currentFile, appText, isEditing, fileReads, exitTimers>>
  /\ UNCHANGED nonAppVars

\* handleExitEdit: setIsEditing(false) and a timer that reloads the file the
\* callback was created with
HandleExitEdit ==
  /\ currentFile # 0
  /\ isEditing
  /\ isEditing' = FALSE
  /\ exitTimers' = exitTimers \cup {[file |-> currentFile, left |-> ExitEditTicks]}
  /\ UNCHANGED <<currentFile, appText, appPreviewContent, debounced, fileReads>>
  /\ UNCHANGED nonAppVars

\* the timer of handleExitEdit fires: readFile(currentFile)
ExitTimerFire(t) ==
  /\ t \in exitTimers
  /\ t.left = 0
  /\ exitTimers' = exitTimers \ {t}
  /\ fileReads' = fileReads \cup {t.file}
  /\ UNCHANGED <<currentFile, appText, appPreviewContent, isEditing, debounced>>
  /\ UNCHANGED nonAppVars

\* 100 ms pass; timers that are due fire first
TickApp ==
  /\ debounced.armed \/ exitTimers # {}
  /\ debounced.armed => debounced.left > 0
  /\ \A t \in exitTimers : t.left > 0
  /\ debounced' = IF debounced.armed
                    THEN [debounced EXCEPT !.left = debounced.left - 1]
                    ELSE debounced
  /\ exitTimers' = {[t EXCEPT !.left = t.left - 1] : t \in exitTimers}
  /\ UNCHANGED <<currentFile, appText, appPreviewContent, isEditing, fileReads>>
  /\ UNCHANGED nonAppVars

NextApp ==
  \/ \E file \in AppFiles : SelectFile(file)
  \/ BackToList
  \/ \E file \in AppFiles : \E ok \in BOOLEAN : ReadSettles(file, ok)
  \/ ToggleEditing
  \/ \E value \in TypedTexts \cup AppFiles : HandleEditorChange(value)
  \/ DebounceFire
  \/ HandleExitEdit
  \/ \E t \in exitTimers : ExitTimerFire(t)
  \/ TickApp

SpecApp == InitApp /\ [][NextApp]_vars

\* ------------------------------------------------------------------------
\* Properties of SpecApp
\* ------------------------------------------------------------------------

\* no debounced call, file read or exit timer is pending
AppQuiescent ==
  /\ ~debounced.armed
  /\ fileReads = {}
  /\ exitTimers = {}

\* C33 (quiescent preview consistency): once every debounce timer, exit
\* timer and file read has completed, the text shown to the preview equals
\* the document content, also when a file was loaded while the debounced
\* update of an edit to the previous file was pending
C33_QuiescentPreviewConsistency == AppQuiescent => appPreviewContent = appText

\* ------------------------------------------------------------------------
\* Properties of SpecPass: the diagrams of one render pass
\* ------------------------------------------------------------------------

\* C34 (one rasterization per text within a pass): in a render pass that
\* holds several diagram blocks with the same trimmed source text, the
\* rasterizer is invoked for at most one of them
C34_OneRasterizationPerPass ==
  \A g \in 1..Len(effects) :
    \A i, j \in 1..Len(effects[g].nodes) :
      (i # j /\ CacheKey(effects[g].nodes[i].text)
                  = CacheKey(effects[g].nodes[j].text))
      => ~(effects[g].nodes[i].invoked /\ effects[g].nodes[j].invoked)

\* ------------------------------------------------------------------------
\* Properties of SpecRender: the commit step
\* ------------------------------------------------------------------------

\* the passes that replaced the preview's DOM
Committed == {g \in 1..Len(effects) : effects[g].wrote}

\* the latest of them
LastCommitted == CHOOSE g \in Committed : \A h \in Committed : h <= g

\* pass g reaches step 4 in this step
ReachesStep4(g) ==
  /\ g \in 1..Len(effects')
  /\ effects'[g].phase = "done"
  /\ g \in 1..Len(effects) => effects[g].phase # "done"

\* C35 (commit is idempotent on identical output): when a pass that is not
\* stale produces HTML equal to the last committed HTML, step 4 replaces
\* nothing: the preview DOM and lastRenderedHtml are unchanged and the
\* branch that restores the scroll offset and initialises charts and tables
\* is not entered; and lastRenderedHtml always is the HTML of the most
\* recent committed pass, which is what the preview shows
C35_CommitIdempotent ==
  /\ [][\A g \in 1..MaxGen :
          (/\ ReachesStep4(g)
           /\ effects'[g].isActive
           /\ effects'[g].html = lastRenderedHtmlRef)
          => /\ ~effects'[g].wrote
             /\ wrapperHtml' = wrapperHtml
             /\ lastRenderedHtmlRef' = lastRenderedHtmlRef]_vars
  /\ [](/\ wrapperHtml = lastRenderedHtmlRef
        /\ lastRenderedHtmlRef =
             IF Committed = {} THEN EmptyHtml ELSE effects[LastCommitted].html)

\* a later pass that was not superseded produced the HTML the preview
\* already showed and left it alone
C35_Witness ==
  \E g \in 2..Len(effects) :
    /\ effects[g].phase = "done" /\ effects[g].isActive
    /\ ~effects[g].differed /\ ~effects[g].wrote
    /\ effects[g].html = lastRenderedHtmlRef
    /\ lastRenderedHtmlRef # EmptyHtml
    /\ \E h \in 1..(g - 1) : effects[h].wrote

C37_GuardCoversLatestLocate ==
  (\E t \in locTimers : t.kind = "flag" /\ t.left > 0)
    => isProgrammaticScroll

\* the save progress modal is open exactly when the save status is not idle
ModalFollowsStatus == isSaveProgressModalOpen <=> saveStatus # "idle"

\* C38: under overlapping save requests the modal is open exactly when the
\* status is not idle, and while a save is still processing no close timer
\* of an earlier save has closed the modal or set the status back to idle
C38_SaveFeedbackStateMachine ==
  /\ ModalFollowsStatus
  /\ pendingSaves # {} => isSaveProgressModalOpen /\ saveStatus # "idle"

(***************************************************************************)
(* Pan and zoom of a diagram: applyInteractions on a .mermaid-container.   *)
(* A scale is counted in tenths (10 is the scale 1), a translation is a    *)
(* fraction of a pixel.                                                    *)
(***************************************************************************)
\* operations on the containers
MaxZoomOps == 3

\* the diagrams of the document, and the lines a container can carry in
\* data-line
Diagrams == {1, 2}
DataLines == {3, 8}

\* let scale = 1
DefaultScale == 10

\* Math.min(Math.max(0.5, scale), 5)
MinScale == 5
MaxScale == 50

\* zoom(0.1), zoom(-0.1) and the delta of the wheel listener
ZoomStep == 1

\* const padding = 40
Padding == 40

\* svg.getBBox() and container.getBoundingClientRect()
Geometry == [svgWidth |-> 200, svgHeight |-> 100,
             containerWidth |-> 300, containerHeight |-> 200]

\* let scale = 1; let translateX = 0; let translateY = 0
DefaultState == [scale |-> DefaultScale, translateX |-> Zero,
                 translateY |-> Zero]

\* localStorage.getItem gives null
NoItem == [saved |-> FALSE]

\* JSON.stringify({ scale, translateX, translateY }): the text lists the
\* three numbers
Stringify(st) ==
  [saved |-> TRUE, json |-> <<st.scale, st.translateX, st.translateY>>]

\* const { scale: s, translateX: tx, translateY: ty } = JSON.parse(saved)
ParseSaved(item) ==
  [scale |-> item.json[1], translateX |-> item.json[2],
   translateY |-> item.json[3]]

\* the scales an earlier session has left in the store by its zoom buttons
StoredScales == {MinScale, MaxScale - ZoomStep, MaxScale}

\* the pointer of a wheel event, relative to the centre of the svg
Pointers == {[x |-> 30, y |-> -20]}

\* clientX - startX and clientY - startY of a mousemove while dragging
DragTargets == {[x |-> 20, y |-> 0], [x |-> -700, y |-> 400]}

\* variant: the scale is bounded from below only
ClampScaleBelow(s) == Max(MinScale, s)

\* scale = Math.min(Math.max(0.5, scale), 5)
ClampScale(s) == Min(Max(MinScale, s), MaxScale)

\* Math.min(Math.max(translate, -limit), limit)
ClampTranslate(t, limit) == Min(Max(t, -limit), limit)

\* limitX = (svgBBox.width * scale) / 2 + containerRect.width / 2 - padding
LimitX(scale) ==
  (Geometry.svgWidth * scale) \div 20 + Geometry.containerWidth \div 2 - Padding

\* limitY = (svgBBox.height * scale) / 2 + containerRect.height / 2 - padding
LimitY(scale) ==
  (Geometry.svgHeight * scale) \div 20 + Geometry.containerHeight \div 2 - Padding

\* translate -= offset * (scale - prevScale), offset = distance / prevScale
ZoomTranslate(translate, distance, prevScale, scale) ==
  RatSub(translate,
         Reduce([num |-> distance * (scale - prevScale), den |-> prevScale]))

\* updateTransform: localStorage.setItem(`mermaid-state-${id}`, ...)
updateTransform(line, st) ==
  localStorage' = [localStorage EXCEPT ![line] = Stringify(st)]

\* the record of an operation on the container of diagram d
ZoomRecord(d, kind, prevScale) ==
  [valid |-> TRUE, diagram |-> d, kind |-> kind, prevScale |-> prevScale,
   parity |-> IF lastZoom.valid THEN 1 - lastZoom.parity ELSE 0]

\* no container has been created; the store holds what earlier sessions
\* have left in it
InitZoom ==
  /\ RenderIdle
  /\ LocateIdle
  /\ ScrollIdle
  /\ BidiIdle
  /\ KeepIdle
  /\ ResyncIdle
  /\ SaveIdle
  /\ FsIdle
  /\ GutterIdle
  /\ AppIdle
  /\ containerLine = [d \in Diagrams |-> 0]
  /\ zoomState = [d \in Diagrams |-> DefaultState]
  /\ localStorage \in
       [DataLines -> {NoItem} \cup
          {Stringify([scale |-> s, translateX |-> Zero, translateY |-> Zero]) :
             s \in StoredScales}]
  /\ zoomOps = 0
  /\ lastZoom = [valid |-> FALSE]

\* applyInteractions(container) for the container that a commit of the
\* preview has created for diagram d, with data-line = line
ApplyInteractions(d, line) ==
  /\ \A e \in Diagrams \ {d} : containerLine[e] # line
  /\ containerLine' = [containerLine EXCEPT ![d] = line]
  /\ IF localStorage[line].saved
       THEN /\ zoomState' = [zoomState EXCEPT ![d] = ParseSaved(localStorage[line])]
            /\ updateTransform(line, zoomState'[d])
            /\ lastZoom' = ZoomRecord(d, "restore", DefaultScale)
       ELSE /\ zoomState' = [zoomState EXCEPT ![d] = DefaultState]
            /\ UNCHANGED localStorage
            /\ lastZoom' = ZoomRecord(d, "create", DefaultScale)
  /\ UNCHANGED zoomOps
  /\ UNCHANGED nonZoomVars

\* zoom(delta) and zoom(delta, clientX, clientY)
zoom(d, delta, atPointer, pointer, kind) ==
  /\ containerLine[d] # 0
  /\ zoomOps < MaxZoomOps
  /\ LET st        == zoomState[d]
         prevScale == st.scale
         scale     == ClampScale(prevScale + delta)
         next      == [scale |-> scale,
                       translateX |->
                         IF atPointer
                           THEN ZoomTranslate(st.translateX, pointer.x,
                                              prevScale, scale)
                           ELSE st.translateX,
                       translateY |->
                         IF atPointer
                           THEN ZoomTranslate(st.translateY, pointer.y,
                                              prevScale, scale)
                           ELSE st.translateY]
     IN /\ zoomState' = [zoomState EXCEPT ![d] = next]
        /\ updateTransform(containerLine[d], next)
        /\ lastZoom' = ZoomRecord(d, kind, prevScale)
  /\ zoomOps' = zoomOps + 1
  /\ UNCHANGED containerLine
  /\ UNCHANGED nonZoomVars

\* the buttons .zoom-in and .zoom-out
ZoomIn(d) == zoom(d, ZoomStep, FALSE, [x |-> 0, y |-> 0], "zoomIn")
ZoomOut(d) == zoom(d, -ZoomStep, FALSE, [x |-> 0, y |-> 0], "zoomOut")

\* the wheel listener with Ctrl or Meta: deltaY > 0 zooms out
Wheel(d, deltaYPositive, pointer) ==
  zoom(d, IF deltaYPositive THEN -ZoomStep ELSE ZoomStep, TRUE, pointer,
       "wheel")

\* the button .reset
ZoomReset(d) ==
  /\ containerLine[d] # 0
  /\ zoomOps < MaxZoomOps
  /\ zoomState' = [zoomState EXCEPT ![d] = DefaultState]
  /\ updateTransform(containerLine[d], DefaultState)
  /\ lastZoom' = ZoomRecord(d, "reset", zoomState[d].scale)
  /\ zoomOps' = zoomOps + 1
  /\ UNCHANGED containerLine
  /\ UNCHANGED nonZoomVars

\* mousedown on the container, then onMouseMove with the pointer at target
Drag(d, target) ==
  /\ containerLine[d] # 0
  /\ zoomOps < MaxZoomOps
  /\ LET st   == zoomState[d]
         next == [scale |-> st.scale,
                  translateX |->
                    RatOfInt(ClampTranslate(target.x, LimitX(st.scale))),
                  translateY |->
                    RatOfInt(ClampTranslate(target.y, LimitY(st.scale)))]
     IN /\ zoomState' = [zoomState EXCEPT ![d] = next]
        /\ updateTransform(containerLine[d], next)
        /\ lastZoom' = ZoomRecord(d, "drag", st.scale)
  /\ zoomOps' = zoomOps + 1
  /\ UNCHANGED containerLine
  /\ UNCHANGED nonZoomVars

NextZoom ==
  \/ \E d \in Diagrams : \E line \in DataLines : ApplyInteractions(d, line)
  \/ \E d \in Diagrams : ZoomIn(d)
  \/ \E d \in Diagrams : ZoomOut(d)
  \/ \E d \in Diagrams : \E up \in BOOLEAN : \E p \in Pointers : Wheel(d, up, p)
  \/ \E d \in Diagrams : ZoomReset(d)
  \/ \E d \in Diagrams : \E t \in DragTargets : Drag(d, t)

SpecZoom == InitZoom /\ [][NextZoom]_vars

\* the scale of every container that exists is within [0.5, 5]
ScaleInBounds ==
  \A d \in Diagrams :
    containerLine[d] # 0 =>
      zoomState[d].scale >= MinScale /\ zoomState[d].scale <= MaxScale

\* the operations that go through updateTransform
ZoomOperations == {"zoomIn", "zoomOut", "wheel", "reset", "restore", "drag"}

\* C39: the scale of a diagram container is within [0.5, 5] after every
\* zoom-in, zoom-out, wheel zoom and reset and after a persisted state has
\* been restored; a reset leaves scale 1 and both translations 0; and after
\* every operation the item stored under the container's data-line is the
\* container's current scale, translateX and translateY
C39_ZoomBoundsAndPersistence ==
  /\ []ScaleInBounds
  /\ [][lastZoom' # lastZoom /\ lastZoom'.kind \in ZoomOperations =>
          LET d == lastZoom'.diagram
          IN /\ localStorage'[containerLine'[d]].saved
             /\ ParseSaved(localStorage'[containerLine'[d]]) = zoomState'[d]
             /\ lastZoom'.kind = "reset" => zoomState'[d] = DefaultState]_vars

\* a zoom-in at the largest scale has left the scale at 5, away from the
\* centre, with the state stored
C39_Witness ==
  /\ lastZoom.valid
  /\ lastZoom.kind \in {"zoomIn", "wheel"}
  /\ lastZoom.prevScale = MaxScale
  /\ zoomState[lastZoom.diagram].scale = MaxScale
  /\ zoomState[lastZoom.diagram].translateX # Zero
  /\ localStorage[containerLine[lastZoom.diagram]] =
       Stringify(zoomState[lastZoom.diagram])

====
